---- MODULE Spec2Model ----
(***************************************************************************)
(* A model of pyglet's vertex domains (pyglet/graphics/vertexdomain.py)    *)
(* and batches (pyglet/graphics/__init__.py).                              *)
(*                                                                         *)
(* pyglet.graphics.allocation, vertexattribute and vertexbuffer are not    *)
(* part of the sources at hand; the allocator, the attribute strides and   *)
(* the buffer's resize-with-copy are modelled from the specification.      *)
(***************************************************************************)
EXTENDS Integers, Sequences, FiniteSets, TLC

(* ------------------------------ bounds --------------------------------- *)

\* Number of vertex list objects that can exist at the same time.
MaxLists == 2

\* Largest allocator capacity the model lets a domain grow to.
MaxCapacity == 64

\* Number of operations the application calls in one run.
MaxOps == 5

\* The number of operations of a run on the batches.
MaxBatchOps == 4

\* The number of operations of a run on the indexed domain.
MaxIndexedOps == 5

\* The number of operations of a run that draws the domains.
MaxDrawOps == 4

\* The calls on the document in one run.
MaxDocOps == 3

\* The length of the document's text.
MaxText == 3

\* The calls on a domain created from any format list.
MaxLayoutOps == 2

\* The calls on the document in a run that keeps the history.
MaxTripOps == 3

(* -------------------------- program constants -------------------------- *)

_initial_count == 16

_initial_index_count == 16

\* Python's None, for the integer-valued fields that can hold it.
None == -1

(* ------------------------------ helpers -------------------------------- *)

Min(S) == CHOOSE x \in S : \A y \in S : x <= y

Max(S) == CHOOSE x \in S : \A y \in S : x >= y

RECURSIVE Pow2(_)
Pow2(k) == IF k = 0 THEN 1 ELSE 2 * Pow2(k - 1)

\* v >> k on a non-negative Python int.
ShiftRight(v, k) == v \div Pow2(k)

\* a | b on non-negative Python ints.
RECURSIVE BitOr(_, _)
BitOr(a, b) ==
    IF a = 0 THEN b
    ELSE IF b = 0 THEN a
    ELSE (IF (a % 2 = 1) \/ (b % 2 = 1) THEN 1 ELSE 0)
         + 2 * BitOr(a \div 2, b \div 2)

OrShift(v, k) == BitOr(v, ShiftRight(v, k))

\* The binary digits kept of a Python int that is too large for the
\* arithmetic above: digit i has the weight 2^i.  Python ints have no
\* width; the digits suffice for every value up to 2^33.
BitPositions == 0 .. 33

\* The digits of 2^k.
PowBits(k) == [i \in BitPositions |-> IF i = k THEN 1 ELSE 0]

\* The digits of the int v.
FromInt(v) == [i \in BitPositions |-> IF i > 30 THEN 0 ELSE (v \div Pow2(i)) % 2]

\* The int that has the digits i to last of b as its digits.
RECURSIVE PartValue(_, _, _)
PartValue(b, i, last) == IF i > last THEN 0 ELSE b[i] + 2 * PartValue(b, i + 1, last)

\* The int that has the digits b, for b below 2^31.
ToInt(b) == PartValue(b, 0, 30)

\* v - 1 on digits, v > 0: the lowest 1 becomes 0 and the zeros below it 1.
DecBits(b) ==
    LET low == CHOOSE i \in BitPositions : b[i] = 1 /\ \A j \in 0 .. i - 1 : b[j] = 0
    IN [i \in BitPositions |-> IF i < low THEN 1 ELSE IF i = low THEN 0 ELSE b[i]]

\* v + 1 on digits: the lowest 0 becomes 1 and the ones below it 0.
IncBits(b) ==
    LET low == CHOOSE i \in BitPositions : b[i] = 0 /\ \A j \in 0 .. i - 1 : b[j] = 1
    IN [i \in BitPositions |-> IF i < low THEN 0 ELSE IF i = low THEN 1 ELSE b[i]]

\* v | (v >> k) on digits.
OrShiftBits(b, k) ==
    [i \in BitPositions |->
        IF b[i] = 1 \/ (i + k \in BitPositions /\ b[i + k] = 1) THEN 1 ELSE 0]

\* A _nearest_pow2 without its last line, v |= v >> 16.
_nearest_pow2_bits_FourShifts(b) ==
    IncBits(OrShiftBits(OrShiftBits(OrShiftBits(OrShiftBits(DecBits(b), 1), 2), 4), 8))

\* _nearest_pow2(v) on the digits of v, v > 0.
_nearest_pow2_bits(b) ==
    IncBits(OrShiftBits(OrShiftBits(OrShiftBits(OrShiftBits(OrShiftBits(
        DecBits(b), 1), 2), 4), 8), 16))

\* _nearest_pow2(v).  For v = 0 the Python code computes on -1, whose shifts
\* and ors stay -1, and returns 0.
_nearest_pow2(v) ==
    IF v = 0 THEN 0
    ELSE OrShift(OrShift(OrShift(OrShift(OrShift(v - 1, 1), 2), 4), 8), 16) + 1

(* ------------------- allocator (pyglet.graphics.allocation) ------------ *)
(* An allocator is a capacity and a set of used regions <<start, size>>.   *)

RegionEnd(r) == r[1] + r[2]

\* [s, s + size) lies below the capacity and meets no used region.
Fits(regions, capacity, s, size) ==
    /\ s + size <= capacity
    /\ \A r \in regions : s + size <= r[1] \/ RegionEnd(r) <= s

LastEnd(regions) == IF regions = {} THEN 0 ELSE Max({RegionEnd(r) : r \in regions})

\* The starts a first-fit search can return: 0 and the end of every region.
FitStarts(regions, capacity, size) ==
    {s \in {0} \cup {RegionEnd(r) : r \in regions} : Fits(regions, capacity, s, size)}

\* Allocator.alloc(size): first fit over the free space; when nothing fits,
\* AllocatorMemoryException(requested_capacity) and no change.
AllocatorAlloc(regions, capacity, size) ==
    LET starts == FitStarts(regions, capacity, size) IN
    IF starts # {}
    THEN [raised |-> FALSE, start |-> Min(starts),
          regions |-> regions \cup {<<Min(starts), size>>},
          requested_capacity |-> 0]
    ELSE [raised |-> TRUE, start |-> None, regions |-> regions,
          requested_capacity |-> LastEnd(regions) + size]

\* Allocator.dealloc(start, size).
AllocatorDealloc(regions, start, size) == regions \ {<<start, size>>}

\* Allocator.realloc(start, size, new_size): in place when the region shrinks
\* or the space after it suffices, otherwise the region is released and
\* allocated afresh; when that fails, AllocatorMemoryException and no change.
AllocatorRealloc(regions, capacity, start, size, new_size) ==
    LET rest == AllocatorDealloc(regions, start, size) IN
    IF new_size <= size \/ Fits(rest, capacity, start, new_size)
    THEN [raised |-> FALSE, start |-> start,
          regions |-> rest \cup {<<start, new_size>>}, requested_capacity |-> 0]
    ELSE LET a == AllocatorAlloc(rest, capacity, new_size) IN
         IF a.raised THEN [a EXCEPT !.regions = regions] ELSE a

\* Allocator.get_allocated_regions(): (starts, sizes), sorted by start.
RECURSIVE SortedRegions(_)
SortedRegions(regions) ==
    IF regions = {} THEN <<>>
    ELSE LET first == CHOOSE r \in regions : \A q \in regions : r[1] <= q[1]
         IN <<first>> \o SortedRegions(regions \ {first})

get_allocated_regions(regions) ==
    LET s == SortedRegions(regions) IN
    << [i \in 1..Len(s) |-> s[i][1]], [i \in 1..Len(s) |-> s[i][2]] >>

(* --------------------- vertex attributes and formats ------------------- *)
(* A format string such as "v3f/static" is modelled by the record that     *)
(* create_attribute_usage returns for it: the attribute (its plural name   *)
(* and its stride in bytes) and the usage.                                 *)

GL_STATIC_DRAW == "static"

GL_DYNAMIC_DRAW == "dynamic"

\* vertexattribute.create_attribute(format): plural name and stride.
create_attribute(format) ==
    CASE format = "v3f" -> [plural |-> "vertices", stride |-> 12]
      [] format = "t2f" -> [plural |-> "tex_coords", stride |-> 8]
      [] format = "c4B" -> [plural |-> "colors", stride |-> 4]

\* create_attribute_usage(format): f is [attribute |-> "v3f", usage |-> u],
\* u the usage component of the string or "" when it has none.
create_attribute_usage(f) ==
    [attribute |-> create_attribute(f.attribute),
     usage |-> IF f.usage # "" THEN f.usage ELSE GL_DYNAMIC_DRAW]

(* -------------------------------- state -------------------------------- *)

VARIABLES
    domain_formats,  \* [domain -> Seq(format)]: the formats the domain was created from
    domain_indexed,  \* [domain -> BOOLEAN]: the domain is an IndexedVertexDomain
    batch_formats,   \* [domain -> formats or <<>>]: the __formats Batch.add leaves on it
    capacity,        \* [domain -> Nat]: domain.allocator.capacity
    regions,         \* [domain -> set of <<start, size>>]: allocator's used regions
    version,         \* [domain -> Nat]: domain._version
    bufsize,         \* [domain -> Seq(Nat)]: byte size of each buffer of buffer_attributes
    data,            \* [domain -> [name -> [slot -> value]]]: contents of the attribute buffers
    index_capacity,  \* [domain -> Nat]: domain.index_allocator.capacity
    index_regions,   \* [domain -> set of <<start, size>>]: index allocator's used regions
    index_bufsize,   \* [domain -> Nat]: byte size of domain.index_buffer
    index_data,      \* [domain -> [slot -> value]]: contents of the index buffer
    vlist,           \* [Lists -> record]: the vertex list objects
    lastOp,          \* the last operation called and the exception it raised, if any
    nops,            \* the number of operations called so far
    group_map,       \* [batch -> [group -> [key -> domain]]]: Batch.group_map
    group_children,  \* [batch -> [group -> Seq(group)]]: Batch.group_children
    top_groups,      \* [batch -> Seq(group)]: Batch.top_groups
    draw_list,       \* [batch -> Seq(operation)]: Batch._draw_list
    draw_list_dirty, \* [batch -> BOOLEAN]: Batch._draw_list_dirty
    address          \* [group -> Nat]: id() of the groups that have no __cmp__

\* The domains created so far.  The index fields of a plain domain are not
\* fields of the object; they keep the values Init gives them.
Domains == DOMAIN capacity

\* The domains the application creates with create_domain (1 and 2) and with
\* create_indexed_domain (3) before the run.
InitialDomains == 1 .. 3

IndexedDomain == 3

\* The usage formats the initial domains are created from.
InitialFormats(d) ==
    CASE d = 1 -> << [attribute |-> "t2f", usage |-> "static"],
                     [attribute |-> "v3f", usage |-> ""] >>
      [] d = 2 -> << [attribute |-> "v3f", usage |-> ""],
                     [attribute |-> "t2f", usage |-> "stream"] >>
      [] OTHER -> << [attribute |-> "c4B", usage |-> "static"],
                     [attribute |-> "v3f", usage |-> ""] >>

\* create_domain / create_indexed_domain: one attribute and usage per format.
usages_of(formats) ==
    [i \in 1 .. Len(formats) |-> create_attribute_usage(formats[i])]

attribute_usages(d) == usages_of(domain_formats[d])

IsStatic(au) == au.usage = GL_STATIC_DRAW

IsNotStatic(au) == au.usage # GL_STATIC_DRAW

\* VertexDomain.__init__: static_attributes, the attributes with static usage.
static_attributes(usages) ==
    LET s == SelectSeq(usages, IsStatic)
    IN [i \in 1 .. Len(s) |-> s[i].attribute]

\* VertexDomain.__init__: the attributes with any other usage, each of which
\* gets a buffer of its own.
nonstatic_attributes(usages) ==
    LET s == SelectSeq(usages, IsNotStatic)
    IN [i \in 1 .. Len(s) |-> s[i].attribute]

\* vertexattribute.interleave_attributes: the stride of the interleaved
\* buffer is the sum of the strides of the attributes packed into it.
RECURSIVE SumStrides(_)
SumStrides(attrs) ==
    IF attrs = <<>> THEN 0 ELSE Head(attrs).stride + SumStrides(Tail(attrs))

\* VertexDomain.attributes: the non-static attributes, then the static ones.
attributes_of(usages) == nonstatic_attributes(usages) \o static_attributes(usages)

\* A buffer_attributes in which every attribute, static or not, has a buffer
\* of its own.
buffer_attributes_of_NoInterleave(usages) ==
    [i \in 1 .. Len(attributes_of(usages)) |->
        [element_size |-> attributes_of(usages)[i].stride,
         attributes |-> <<attributes_of(usages)[i]>>]]

\* VertexDomain.buffer_attributes: one buffer per non-static attribute, then
\* one interleaved buffer for all static attributes.
buffer_attributes_of(usages) ==
    [i \in 1 .. Len(nonstatic_attributes(usages)) |->
        [element_size |-> nonstatic_attributes(usages)[i].stride,
         attributes |-> <<nonstatic_attributes(usages)[i]>>]]
    \o (IF static_attributes(usages) # <<>>
        THEN << [element_size |-> SumStrides(static_attributes(usages)),
                 attributes |-> static_attributes(usages)] >>
        ELSE <<>>)

\* VertexDomain.attribute_names: the plural names of the attributes.
attribute_names_of(usages) ==
    {attributes_of(usages)[i].plural : i \in 1 .. Len(attributes_of(usages))}

attributes(d) == attributes_of(attribute_usages(d))

buffer_attributes(d) == buffer_attributes_of(attribute_usages(d))

attribute_names(d) == attribute_names_of(attribute_usages(d))

VARIABLES
    document,    \* the document: its class, _text, _elements, _style_runs, styles
    _position,   \* [element -> Int]: InlineElement._position, None when not placed
    dispatched,  \* the notifications the last call dispatched, with what a handler saw
    before       \* history: what the last call on the document began with

AttrNames == {"vertices", "tex_coords", "colors"}

\* The index type is GL_UNSIGNED_INT: ctypes.sizeof(c_uint).
index_element_size == 4

Lists == 1 .. MaxLists

domvars == <<capacity, regions, version, bufsize, data>>

indexvars == <<index_capacity, index_regions, index_bufsize, index_data>>

layoutvars == <<domain_formats, domain_indexed, batch_formats>>

batchvars == <<group_map, group_children, top_groups, draw_list, draw_list_dirty, address>>

vars == <<domain_formats, domain_indexed, batch_formats, capacity, regions, version,
          bufsize, data, index_capacity, index_regions, index_bufsize, index_data,
          vlist, lastOp, nops, group_map, group_children, top_groups, draw_list,
          draw_list_dirty, address, document, _position, dispatched, before>>

docvars == <<document, _position, dispatched, before>>

\* The state of the graphics objects.
graphicsvars == <<domain_formats, domain_indexed, batch_formats, capacity, regions, version,
                  bufsize, data, index_capacity, index_regions, index_bufsize, index_data,
                  vlist, group_map, group_children, top_groups, draw_list,
                  draw_list_dirty, address>>

\* A region object as attribute.get_region(buffer, start, count) returns it:
\* the buffer is identified by its domain.
Region(d, start, count) == [domain |-> d, start |-> start, count |-> count]

NoRegion == [domain |-> None, start |-> None, count |-> None]

CacheNames == AttrNames \cup {"indices"}

\* A vertex list object that does not exist (yet, or any more as a live list).
\* `retained` is history, not a field of the object: the number of leading
\* indices of an indexed list that every resize since its creation kept.
NoList ==
    [state |-> "none", domain |-> None, start |-> None, count |-> None,
     index_start |-> None, index_count |-> None, retained |-> 0,
     cache_version |-> [n \in CacheNames |-> None],
     cache |-> [n \in CacheNames |-> NoRegion]]

\* The content of a buffer that has never been written.
Unwritten == 0

\* The value the application writes at vertex k of attribute `name` of list l.
Val(l, name, k) ==
    l * 1000 + (CASE name = "vertices" -> 1 [] name = "tex_coords" -> 2 [] OTHER -> 3) * 100 + k + 1

NoOp ==
    [op |-> "none", list |-> None, arg |-> None, raised |-> "none",
     moved |-> FALSE, grew |-> FALSE]

\* What lastOp keeps of an operation: its name, the list it was called on (or
\* for), the domain argument of migrate, the exception it raised ("none" when
\* it returned normally), whether it changed the list's start and whether
\* it resized the buffers.
Op(op, l, arg, raised, moved, grew) ==
    [op |-> op, list |-> l, arg |-> arg, raised |-> raised, moved |-> moved, grew |-> grew]

\* vertexbuffer.create_mappable_buffer(size): `slots` elements, none written.
create_mappable_buffer(slots) == [i \in 0 .. slots - 1 |-> Unwritten]

\* A buffer.resize that keeps nothing of the contents.
BufferResize_Cleared(contents, slots) == [i \in 0 .. slots - 1 |-> Unwritten]

\* buffer.resize(size): the contents are kept, the new space is unwritten.
BufferResize(contents, slots) ==
    [i \in 0 .. slots - 1 |-> IF i \in DOMAIN contents THEN contents[i] ELSE Unwritten]

\* The state of a new domain: VertexDomain.__init__ and, for the index
\* fields, IndexedVertexDomain.__init__.
NewDomain(formats) ==
    [formats |-> formats,
     capacity |-> _initial_count,
     regions |-> {},
     version |-> 0,
     bufsize |-> [i \in 1 .. Len(buffer_attributes_of(usages_of(formats))) |->
                     buffer_attributes_of(usages_of(formats))[i].element_size * _initial_count],
     data |-> [n \in attribute_names_of(usages_of(formats)) |->
                  create_mappable_buffer(_initial_count)],
     index_capacity |-> _initial_index_count,
     index_regions |-> {},
     index_bufsize |-> _initial_index_count * index_element_size,
     index_data |-> create_mappable_buffer(_initial_index_count)]

Batches == 1 .. 2

\* Batch.__init__.
InitBatches ==
    /\ group_map = [b \in Batches |-> <<>>]
    /\ group_children = [b \in Batches |-> <<>>]
    /\ top_groups = [b \in Batches |-> <<>>]
    /\ draw_list = [b \in Batches |-> <<>>]
    /\ draw_list_dirty = [b \in Batches |-> FALSE]

\* The application has created its three domains and two empty batches.
InitObjects ==
    /\ domain_formats = [d \in InitialDomains |-> InitialFormats(d)]
    /\ domain_indexed = [d \in InitialDomains |-> d = IndexedDomain]
    /\ batch_formats = [d \in InitialDomains |-> <<>>]
    /\ capacity = [d \in InitialDomains |-> NewDomain(InitialFormats(d)).capacity]
    /\ regions = [d \in InitialDomains |-> NewDomain(InitialFormats(d)).regions]
    /\ version = [d \in InitialDomains |-> NewDomain(InitialFormats(d)).version]
    /\ bufsize = [d \in InitialDomains |-> NewDomain(InitialFormats(d)).bufsize]
    /\ data = [d \in InitialDomains |-> NewDomain(InitialFormats(d)).data]
    /\ index_capacity = [d \in InitialDomains |-> NewDomain(InitialFormats(d)).index_capacity]
    /\ index_regions = [d \in InitialDomains |-> NewDomain(InitialFormats(d)).index_regions]
    /\ index_bufsize = [d \in InitialDomains |-> NewDomain(InitialFormats(d)).index_bufsize]
    /\ index_data = [d \in InitialDomains |-> NewDomain(InitialFormats(d)).index_data]
    /\ vlist = [l \in Lists |-> NoList]
    /\ lastOp = NoOp
    /\ nops = 0
    /\ InitBatches

(* ----------------------------- VertexDomain ---------------------------- *)

\* The fields of domain d, as the methods of the domain read and change them.
DomState(d) ==
    [formats |-> domain_formats[d],
     capacity |-> capacity[d], regions |-> regions[d], version |-> version[d],
     bufsize |-> bufsize[d], data |-> data[d],
     index_capacity |-> index_capacity[d], index_regions |-> index_regions[d],
     index_bufsize |-> index_bufsize[d], index_data |-> index_data[d]]

\* A growth that resizes every buffer to `capacity` bytes, the element size
\* forgotten.
Grow_ForgetsElementSize(st, requested_capacity) ==
    LET cap == _nearest_pow2(requested_capacity) IN
    [st EXCEPT !.capacity = cap,
               !.version = st.version + 1,
               !.bufsize = [i \in DOMAIN st.bufsize |-> cap],
               !.data = [n \in DOMAIN st.data |-> BufferResize(st.data[n], cap)]]

\* The except branch of _safe_alloc and _safe_realloc: the version is
\* bumped, every buffer is resized to capacity * element_size and the
\* allocator's capacity is set.
Grow(st, requested_capacity) ==
    LET cap == _nearest_pow2(requested_capacity) IN
    [st EXCEPT !.capacity = cap,
               !.version = st.version + 1,
               !.bufsize = [i \in DOMAIN st.bufsize |->
                               cap * buffer_attributes_of(usages_of(st.formats))[i].element_size],
               !.data = [n \in DOMAIN st.data |-> BufferResize(st.data[n], cap)]]

\* A retry after a growth that resized the buffers but did not call
\* allocator.set_capacity.
_safe_alloc_KeepsCapacity(st, count) ==
    LET a == AllocatorAlloc(st.regions, st.capacity, count) IN
    IF ~a.raised
    THEN [raised |-> FALSE, start |-> a.start, st |-> [st EXCEPT !.regions = a.regions]]
    ELSE LET g == [Grow(st, a.requested_capacity) EXCEPT !.capacity = st.capacity]
             b == AllocatorAlloc(g.regions, g.capacity, count)
         IN [raised |-> b.raised, start |-> b.start, st |-> [g EXCEPT !.regions = b.regions]]

\* VertexDomain._safe_alloc(count): [raised, start, st], st the domain's
\* state afterwards.
_safe_alloc(st, count) ==
    LET a == AllocatorAlloc(st.regions, st.capacity, count) IN
    IF ~a.raised
    THEN [raised |-> FALSE, start |-> a.start, st |-> [st EXCEPT !.regions = a.regions]]
    ELSE LET g == Grow(st, a.requested_capacity)
             b == AllocatorAlloc(g.regions, g.capacity, count)
         IN [raised |-> b.raised, start |-> b.start, st |-> [g EXCEPT !.regions = b.regions]]

\* VertexDomain._safe_realloc(start, count, new_count).
_safe_realloc(st, start, count, new_count) ==
    LET a == AllocatorRealloc(st.regions, st.capacity, start, count, new_count) IN
    IF ~a.raised
    THEN [raised |-> FALSE, start |-> a.start, st |-> [st EXCEPT !.regions = a.regions]]
    ELSE LET g == Grow(st, a.requested_capacity)
             b == AllocatorRealloc(g.regions, g.capacity, start, count, new_count)
         IN [raised |-> b.raised, start |-> b.start, st |-> [g EXCEPT !.regions = b.regions]]

\* The domain variables after the vertex fields of domain d became those of
\* st; d is a domain created before the step or in it.
SetDomState(d, st) ==
    /\ capacity' = (d :> st.capacity) @@ capacity
    /\ regions' = (d :> st.regions) @@ regions
    /\ version' = (d :> st.version) @@ version
    /\ bufsize' = (d :> st.bufsize) @@ bufsize
    /\ data' = (d :> st.data) @@ data

\* new.array[:] = old.array[:] for regions of `count` elements at `from` of
\* src and at `to` of dst: the old values are read before any is written.
CopyRegion(dst, src, from, to, count) ==
    [i \in DOMAIN dst |-> IF to <= i /\ i < to + count THEN src[from + (i - to)] ELSE dst[i]]

\* region.array[:] = data for the region (start, count) of list l.
WriteRegion(contents, l, name, start, count) ==
    [i \in DOMAIN contents |->
        IF start <= i /\ i < start + count THEN Val(l, name, i - start) ELSE contents[i]]

IsLive(l) == vlist[l].state = "live"

\* The model's name for the next vertex list object: the least unused one.
IsNew(l) == ~IsLive(l) /\ \A k \in Lists : k < l => IsLive(k)

\* VertexDomain.create(count), on a plain domain.
Create(l, d, count) ==
    /\ IsNew(l)
    /\ \E r \in {_safe_alloc(DomState(d), count)} :
       /\ r.st.capacity <= MaxCapacity
       /\ SetDomState(d, r.st)
       /\ IF r.raised
          THEN /\ vlist' = vlist
               /\ lastOp' = Op("create", l, None, "AllocatorMemoryException", FALSE, r.st.version # version[d])
          ELSE /\ vlist' = [vlist EXCEPT ![l] =
                       [NoList EXCEPT !.state = "live", !.domain = d,
                                      !.start = r.start, !.count = count]]
               /\ lastOp' = Op("create", l, None, "none", FALSE, r.st.version # version[d])
    /\ UNCHANGED indexvars
    /\ UNCHANGED <<layoutvars, batchvars>>

\* A resize that moves the region and copies nothing.
ResizeCopy_Nothing(d, contents, start, new_start, count) == contents

\* The copy loop of VertexList.resize: every attribute of the domain, the
\* old count of elements from the old start to the new start.
ResizeCopy(d, contents, start, new_start, count) ==
    [n \in DOMAIN contents |->
        IF \E i \in 1 .. Len(attributes(d)) : attributes(d)[i].plural = n
        THEN CopyRegion(contents[n], contents[n], start, new_start, count)
        ELSE contents[n]]

\* A resize that does not assign the new start.
ResizedList_KeepsStart(v, new_start, count) ==
    [v EXCEPT !.count = count,
              !.cache_version = [@ EXCEPT !["colors"] = None, !["vertices"] = None]]

\* The fields VertexList.resize assigns once the reallocation returned.
ResizedList(v, new_start, count) ==
    [v EXCEPT !.start = new_start, !.count = count,
              !.cache_version = [@ EXCEPT !["colors"] = None, !["vertices"] = None]]

\* VertexList.resize(count), on a list of a plain domain.
Resize(l, count) ==
    /\ IsLive(l)
    /\ ~domain_indexed[vlist[l].domain]
    /\ \E v \in {vlist[l]} :
       \E d \in {v.domain} :
       \E r \in {_safe_realloc(DomState(d), v.start, v.count, count)} :
          /\ r.st.capacity <= MaxCapacity
          /\ IF r.raised
             THEN /\ SetDomState(d, r.st)
                  /\ vlist' = vlist
                  /\ lastOp' = Op("resize", l, None, "AllocatorMemoryException", FALSE, r.st.version # version[d])
             ELSE /\ SetDomState(d,
                       IF r.start # v.start
                       THEN [r.st EXCEPT !.data = ResizeCopy(d, @, v.start, r.start, v.count)]
                       ELSE r.st)
                  /\ vlist' = [vlist EXCEPT ![l] = ResizedList(v, r.start, count)]
                  /\ lastOp' = Op("resize", l, None, "none", r.start # v.start, r.st.version # version[d])
    /\ UNCHANGED indexvars
    /\ UNCHANGED <<layoutvars, batchvars>>

\* VertexList.delete().
Delete(l) ==
    /\ IsLive(l)
    /\ ~domain_indexed[vlist[l].domain]
    /\ regions' = [regions EXCEPT ![vlist[l].domain] =
                      AllocatorDealloc(@, vlist[l].start, vlist[l].count)]
    /\ vlist' = [vlist EXCEPT ![l] = NoList]
    /\ lastOp' = Op("delete", l, None, "none", FALSE, FALSE)
    /\ UNCHANGED <<capacity, version, bufsize, data>>
    /\ UNCHANGED indexvars
    /\ UNCHANGED <<layoutvars, batchvars>>

\* VertexList._set_attribute_data(i, data) on the contents of the list's
\* domain: the region of attrs[i], attrs being domain.attributes, is assigned
\* the data, here the array the application made for attribute `intended`
\* of list l.
_set_attribute_data(contents, attrs, start, count, i, l, intended) ==
    [contents EXCEPT ![attrs[i].plural] =
        [k \in DOMAIN @ |->
            IF start <= k /\ k < start + count THEN Val(l, intended, k - start) ELSE @[k]]]

RECURSIVE SetAllAttributeData(_, _, _)
SetAllAttributeData(contents, l, i) ==
    IF i = 0 THEN contents
    ELSE _set_attribute_data(SetAllAttributeData(contents, l, i - 1),
                             attributes(vlist[l].domain), vlist[l].start, vlist[l].count,
                             i, l, attributes(vlist[l].domain)[i].plural)

\* The application writes every attribute of list l, one
\* _set_attribute_data call per attribute.
SetData(l) ==
    /\ IsLive(l)
    /\ ~domain_indexed[vlist[l].domain]
    /\ data' = [data EXCEPT ![vlist[l].domain] =
                   SetAllAttributeData(@, l, Len(attributes(vlist[l].domain)))]
    /\ lastOp' = Op("set_attribute_data", l, None, "none", FALSE, FALSE)
    /\ UNCHANGED <<capacity, regions, version, bufsize, vlist>>
    /\ UNCHANGED indexvars
    /\ UNCHANGED <<layoutvars, batchvars>>

\* The allocation VertexList.migrate makes in the target domain, whose
\* fields are st2.
MigrateAlloc(st2, count) == AllocatorAlloc(st2.regions, st2.capacity, count)

\* A migrate that allocates in the target domain and copies nothing.
MigrateCopy_Nothing(names, old, new, start, new_start, count) == new

\* The copy loop of VertexList.migrate: for every attribute name of the
\* list's domain, `count` elements from `start` of the attribute's buffer
\* (in `old`) to `new_start` of the buffer of the target domain's attribute
\* of that name (in `new`).
MigrateCopy(names, old, new, start, new_start, count) ==
    [n \in DOMAIN new |->
        IF n \in names
        THEN CopyRegion(new[n], old[n], start, new_start, count)
        ELSE new[n]]

\* A migrate without the assertion on the attribute names.
Migrate_Unchecked(l, d2) ==
    /\ IsLive(l)
    /\ ~domain_indexed[vlist[l].domain]
    /\ \E v \in {vlist[l]} :
       \E d \in {v.domain} :
       \E a \in {MigrateAlloc(DomState(d2), v.count)} :
          IF a.raised
          THEN /\ lastOp' = Op("migrate", l, d2, "AllocatorMemoryException", FALSE, FALSE)
               /\ UNCHANGED <<regions, data, vlist>>
          ELSE /\ data' = [data EXCEPT ![d2] =
                      MigrateCopy(attribute_names(d), data[d], @, v.start, a.start, v.count)]
               /\ regions' = [[regions EXCEPT ![d2] = a.regions]
                                 EXCEPT ![d] = AllocatorDealloc(@, v.start, v.count)]
               /\ vlist' = [vlist EXCEPT ![l] = [v EXCEPT !.domain = d2, !.start = a.start]]
               /\ lastOp' = Op("migrate", l, d2, "none", TRUE, FALSE)
    /\ UNCHANGED <<capacity, version, bufsize>>
    /\ UNCHANGED indexvars
    /\ UNCHANGED <<layoutvars, batchvars>>

\* VertexList.migrate(domain).
Migrate(l, d2) ==
    /\ IsLive(l)
    /\ ~domain_indexed[vlist[l].domain]
    /\ \E v \in {vlist[l]} :
       \E d \in {v.domain} :
       \E a \in {MigrateAlloc(DomState(d2), v.count)} :
          IF attribute_names(d2) # attribute_names(d)
          THEN /\ lastOp' = Op("migrate", l, d2, "AssertionError", FALSE, FALSE)
               /\ UNCHANGED <<regions, data, vlist>>
          ELSE IF a.raised
          THEN /\ lastOp' = Op("migrate", l, d2, "AllocatorMemoryException", FALSE, FALSE)
               /\ UNCHANGED <<regions, data, vlist>>
          ELSE /\ data' = [data EXCEPT ![d2] =
                      MigrateCopy(attribute_names(d), data[d], @, v.start, a.start, v.count)]
               /\ regions' = [[regions EXCEPT ![d2] = a.regions]
                                 EXCEPT ![d] = AllocatorDealloc(@, v.start, v.count)]
               /\ vlist' = [vlist EXCEPT ![l] = [v EXCEPT !.domain = d2, !.start = a.start]]
               /\ lastOp' = Op("migrate", l, d2, "none", TRUE, FALSE)
    /\ UNCHANGED <<capacity, version, bufsize>>
    /\ UNCHANGED indexvars
    /\ UNCHANGED <<layoutvars, batchvars>>

\* A call of the GL: the function, and the (start, size) pairs it submits.
GLCall(function, pairs) == [function |-> function, pairs |-> pairs]

\* A draw that submits the first allocated region only.
VertexDomain_draw_FirstOnly(regs, vertex_list, have_multi) ==
    IF regs = {} THEN <<>>
    ELSE <<GLCall("glDrawArrays", <<SortedRegions(regs)[1]>>)>>

\* VertexDomain.draw(mode, vertex_list): the drawing calls it makes, regs the
\* allocator's regions, vertex_list the list or NoList for None, and
\* have_multi the answer of gl_info.have_version(1, 4).
VertexDomain_draw(regs, vertex_list, have_multi) ==
    IF vertex_list # NoList
    THEN <<GLCall("glDrawArrays", <<<<vertex_list.start, vertex_list.count>>>>)>>
    ELSE LET starts == get_allocated_regions(regs)[1]
             sizes == get_allocated_regions(regs)[2]
             primcount == Len(starts)
         IN IF primcount = 0 THEN <<>>
            ELSE IF primcount = 1
            THEN <<GLCall("glDrawArrays", <<<<starts[1], sizes[1]>>>>)>>
            ELSE IF have_multi
            THEN <<GLCall("glMultiDrawArrays",
                          [i \in 1 .. primcount |-> <<starts[i], sizes[i]>>])>>
            ELSE [i \in 1 .. primcount |->
                     GLCall("glDrawArrays", <<<<starts[i], sizes[i]>>>>)]

\* domain.draw(mode) for l = None, and VertexList.draw(mode) of list l, which
\* is domain.draw(mode, self); the calls are kept in lastOp.
DrawDomain(d, l, have_multi) ==
    /\ ~domain_indexed[d]
    /\ l # None => IsLive(l) /\ vlist[l].domain = d
    /\ lastOp' = Op("domain_draw", l,
                    [domain |-> d, have_multi |-> have_multi,
                     calls |-> VertexDomain_draw(regions[d],
                                                 IF l = None THEN NoList ELSE vlist[l],
                                                 have_multi)],
                    "none", FALSE, FALSE)
    /\ UNCHANGED <<domvars, indexvars, layoutvars, batchvars, vlist>>

(* ------------------- the cached attribute regions ---------------------- *)

\* The cache update of _get_vertices, _get_tex_coords, _get_colors and
\* _get_indices: the cached region is replaced when its version differs from
\* the domain's.  For "indices" the region is one of the index buffer.
GetCached(v, name, domain_version) ==
    IF v.cache_version[name] # domain_version
    THEN [v EXCEPT !.cache[name] =
                       IF name = "indices"
                       THEN Region(v.domain, v.index_start, v.index_count)
                       ELSE Region(v.domain, v.start, v.count),
                   !.cache_version[name] = domain_version]
    ELSE v

\* The region whose array a read of the property `name` of list l returns.
ReadRegion(l, name) == GetCached(vlist[l], name, version[vlist[l].domain]).cache[name]

\* The names a list of domain d can be read by.
ReadableNames(d) ==
    attribute_names(d) \cup (IF domain_indexed[d] THEN {"indices"} ELSE {})

\* The application reads vlist.<name> (_get_<name>).
GetAttribute(l, name) ==
    /\ IsLive(l)
    /\ name \in ReadableNames(vlist[l].domain)
    /\ vlist' = [vlist EXCEPT ![l] = GetCached(@, name, version[vlist[l].domain])]
    /\ lastOp' = Op("get", l, None, "none", FALSE, FALSE)
    /\ UNCHANGED domvars
    /\ UNCHANGED indexvars
    /\ UNCHANGED <<layoutvars, batchvars>>

(* -------------------------- IndexedVertexDomain ------------------------ *)

\* The index allocator and index buffer of a domain whose fields are st, as
\* the _safe_index_* methods read and change them.
IndexStateOf(st) ==
    [capacity |-> st.index_capacity, regions |-> st.index_regions,
     version |-> st.version, bufsize |-> st.index_bufsize, data |-> st.index_data]

IndexState(d) == IndexStateOf(DomState(d))

\* A growth of the index buffer that leaves the version as it is.
GrowIndex_KeepsVersion(st, requested_capacity) ==
    LET cap == _nearest_pow2(requested_capacity) IN
    [st EXCEPT !.capacity = cap,
               !.bufsize = cap * index_element_size,
               !.data = BufferResize(st.data, cap)]

\* The except branch of _safe_index_alloc and _safe_index_realloc.
GrowIndex(st, requested_capacity) ==
    LET cap == _nearest_pow2(requested_capacity) IN
    [st EXCEPT !.capacity = cap,
               !.version = st.version + 1,
               !.bufsize = cap * index_element_size,
               !.data = BufferResize(st.data, cap)]

\* IndexedVertexDomain._safe_index_alloc(count).
_safe_index_alloc(st, count) ==
    LET a == AllocatorAlloc(st.regions, st.capacity, count) IN
    IF ~a.raised
    THEN [raised |-> FALSE, start |-> a.start, st |-> [st EXCEPT !.regions = a.regions]]
    ELSE LET g == GrowIndex(st, a.requested_capacity)
             b == AllocatorAlloc(g.regions, g.capacity, count)
         IN [raised |-> b.raised, start |-> b.start, st |-> [g EXCEPT !.regions = b.regions]]

\* IndexedVertexDomain._safe_index_realloc(start, count, new_count).
_safe_index_realloc(st, start, count, new_count) ==
    LET a == AllocatorRealloc(st.regions, st.capacity, start, count, new_count) IN
    IF ~a.raised
    THEN [raised |-> FALSE, start |-> a.start, st |-> [st EXCEPT !.regions = a.regions]]
    ELSE LET g == GrowIndex(st, a.requested_capacity)
             b == AllocatorRealloc(g.regions, g.capacity, start, count, new_count)
         IN [raised |-> b.raised, start |-> b.start, st |-> [g EXCEPT !.regions = b.regions]]

\* The index variables (and the version the domain shares with them) after
\* the index state of domain d became st.
SetIndexState(d, st) ==
    /\ index_capacity' = (d :> st.capacity) @@ index_capacity
    /\ index_regions' = (d :> st.regions) @@ index_regions
    /\ index_bufsize' = (d :> st.bufsize) @@ index_bufsize
    /\ index_data' = (d :> st.data) @@ index_data
    /\ version' = (d :> st.version) @@ version

\* The list-relative indices the application passes to add_indexed: index k
\* refers to vertex I(k) of the list.
I(k) == k % 3

\* Batch.add_indexed on the domain it resolved: IndexedVertexDomain.create
\* (count, len(indices)), then _set_index_data with the indices biased by the
\* list's start, then the initial arrays of every attribute.
AddIndexed(l, count, index_count) ==
    /\ IsNew(l)
    /\ \E d \in {IndexedDomain} :
       \E r \in {_safe_alloc(DomState(d), count)} :
       \E ir \in {_safe_index_alloc(IndexStateOf(r.st), index_count)} :
          /\ r.st.capacity <= MaxCapacity
          /\ ir.st.capacity <= MaxCapacity
          /\ ~r.raised /\ ~ir.raised
          /\ capacity' = [capacity EXCEPT ![d] = r.st.capacity]
          /\ regions' = [regions EXCEPT ![d] = r.st.regions]
          /\ bufsize' = [bufsize EXCEPT ![d] = r.st.bufsize]
          /\ data' = [data EXCEPT ![d] =
                 [n \in DOMAIN r.st.data |-> WriteRegion(r.st.data[n], l, n, r.start, count)]]
          /\ SetIndexState(d,
                 [ir.st EXCEPT !.data =
                     [i \in DOMAIN @ |->
                         IF ir.start <= i /\ i < ir.start + index_count
                         THEN I(i - ir.start) + r.start
                         ELSE @[i]]])
          /\ vlist' = [vlist EXCEPT ![l] =
                 [NoList EXCEPT !.state = "live", !.domain = d,
                                !.start = r.start, !.count = count,
                                !.index_start = ir.start, !.index_count = index_count,
                                !.retained = index_count]]
          /\ lastOp' = Op("add_indexed", l, None, "none", FALSE, ir.st.version # version[d])
    /\ UNCHANGED <<layoutvars, batchvars>>

\* Batch.add_indexed when the index buffer cannot be resized: the vertices
\* are allocated, the first index alloc raises, the version is bumped and
\* index_buffer.resize raises MemoryError out of create.
AddIndexedFails(l, count, index_count) ==
    /\ IsNew(l)
    /\ \E d \in {IndexedDomain} :
       \E r \in {_safe_alloc(DomState(d), count)} :
          /\ r.st.capacity <= MaxCapacity
          /\ ~r.raised
          /\ AllocatorAlloc(index_regions[d], index_capacity[d], index_count).raised
          /\ SetDomState(d, [r.st EXCEPT !.version = @ + 1])
    /\ lastOp' = Op("add_indexed", l, None, "MemoryError", FALSE, TRUE)
    /\ UNCHANGED <<indexvars, vlist>>
    /\ UNCHANGED <<layoutvars, batchvars>>

\* self.indices[:] = map(lambda i: i + diff, self.indices), on the region
\* the indices property returns.
Rebias(contents, region, diff) ==
    [i \in DOMAIN contents |->
        IF region.start <= i /\ i < region.start + region.count
        THEN contents[i] + diff
        ELSE contents[i]]

\* IndexedVertexList.resize(count, index_count).
ResizeIndexed(l, count, index_count) ==
    /\ IsLive(l)
    /\ domain_indexed[vlist[l].domain]
    /\ \E v \in {vlist[l]} :
       \E d \in {v.domain} :
       \* super().resize(count)
       \E r \in {_safe_realloc(DomState(d), v.start, v.count, count)} :
       \E moved \in {r.start # v.start} :
       \* the indices are changed when the vertices moved
       \E v2 \in {IF moved
                  THEN GetCached(ResizedList(v, r.start, count), "indices", r.st.version)
                  ELSE ResizedList(v, r.start, count)} :
       \E idata \in {IF moved
                     THEN Rebias(index_data[d], v2.cache["indices"], r.start - v.start)
                     ELSE index_data[d]} :
       \* the indices are resized
       \E ir \in {_safe_index_realloc([IndexStateOf(r.st) EXCEPT !.data = idata],
                                      v.index_start, v.index_count, index_count)} :
          /\ r.st.capacity <= MaxCapacity
          /\ ir.st.capacity <= MaxCapacity
          /\ ~r.raised /\ ~ir.raised
          /\ capacity' = [capacity EXCEPT ![d] = r.st.capacity]
          /\ regions' = [regions EXCEPT ![d] = r.st.regions]
          /\ bufsize' = [bufsize EXCEPT ![d] = r.st.bufsize]
          /\ data' = [data EXCEPT ![d] =
                 IF moved THEN ResizeCopy(d, r.st.data, v.start, r.start, v.count)
                 ELSE r.st.data]
          \* old and new are both the region at self.index_start
          /\ SetIndexState(d,
                 IF ir.start # v.index_start
                 THEN [ir.st EXCEPT !.data =
                          CopyRegion(@, @, v.index_start, v.index_start, v.index_count)]
                 ELSE ir.st)
          /\ vlist' = [vlist EXCEPT ![l] =
                 [v2 EXCEPT !.index_start = ir.start, !.index_count = index_count,
                            !.retained = Min({@, index_count}),
                            !.cache_version["indices"] = None]]
          /\ lastOp' = Op("resize", l, None, "none", moved, ir.st.version # version[d])
    /\ UNCHANGED <<layoutvars, batchvars>>

\* IndexedVertexList.delete().
\* An IndexedVertexList.delete that is VertexList.delete and no more.
DeleteIndexed_KeepsIndices(l) ==
    /\ IsLive(l)
    /\ domain_indexed[vlist[l].domain]
    /\ regions' = [regions EXCEPT ![vlist[l].domain] =
                      AllocatorDealloc(@, vlist[l].start, vlist[l].count)]
    /\ vlist' = [vlist EXCEPT ![l] = NoList]
    /\ lastOp' = Op("delete", l, None, "none", FALSE, FALSE)
    /\ UNCHANGED <<capacity, version, bufsize, data>>
    /\ UNCHANGED indexvars
    /\ UNCHANGED <<layoutvars, batchvars>>

DeleteIndexed(l) ==
    /\ IsLive(l)
    /\ domain_indexed[vlist[l].domain]
    /\ regions' = [regions EXCEPT ![vlist[l].domain] =
                      AllocatorDealloc(@, vlist[l].start, vlist[l].count)]
    /\ index_regions' = [index_regions EXCEPT ![vlist[l].domain] =
                      AllocatorDealloc(@, vlist[l].index_start, vlist[l].index_count)]
    /\ vlist' = [vlist EXCEPT ![l] = NoList]
    /\ lastOp' = Op("delete", l, None, "none", FALSE, FALSE)
    /\ UNCHANGED <<capacity, version, bufsize, data>>
    /\ UNCHANGED <<index_capacity, index_bufsize, index_data>>
    /\ UNCHANGED <<layoutvars, batchvars>>

\* A call of _nearest_pow2(v), v given by its digits.
NearestPow2(v) ==
    /\ lastOp' = Op("_nearest_pow2", None,
                    [v |-> v, returned |-> _nearest_pow2_bits(v)], "none", FALSE, FALSE)
    /\ UNCHANGED <<domvars, indexvars, layoutvars, batchvars, vlist>>

\* IndexedVertexDomain.draw(mode, vertex_list): the drawing calls it makes
\* and the (offset into the index buffer, count) pairs they submit; regs
\* are the index allocator's regions, vertex_list the list or NoList for
\* None, have_multi the answer of gl_info.have_version(1, 4).
IndexedVertexDomain_draw(regs, vertex_list, have_multi) ==
    IF vertex_list # NoList
    THEN <<GLCall("glDrawElements", <<<<vertex_list.start, vertex_list.count>>>>)>>
    ELSE LET starts == get_allocated_regions(regs)[1]
             sizes == get_allocated_regions(regs)[2]
             primcount == Len(starts)
         IN IF primcount = 0 THEN <<>>
            ELSE IF primcount = 1
            THEN <<GLCall("glDrawElements", <<<<starts[1], sizes[1]>>>>)>>
            ELSE IF have_multi
            THEN <<GLCall("glMultiDrawElements",
                          [i \in 1 .. primcount |-> <<starts[i], sizes[i]>>])>>
            ELSE [i \in 1 .. primcount |->
                     GLCall("glDrawElements", <<<<starts[i], sizes[i]>>>>)]

\* domain.draw(mode) and domain.draw(mode, vertex_list) of the indexed
\* domain; IndexedVertexList.draw(mode) is the second.
DrawIndexedDomain(d, l, have_multi) ==
    /\ domain_indexed[d]
    /\ l # None => IsLive(l) /\ vlist[l].domain = d
    /\ lastOp' = Op("indexed_domain_draw", l,
                    [domain |-> d, have_multi |-> have_multi,
                     calls |-> IndexedVertexDomain_draw(index_regions[d],
                                                        IF l = None THEN NoList ELSE vlist[l],
                                                        have_multi)],
                    "none", FALSE, FALSE)
    /\ UNCHANGED <<domvars, indexvars, layoutvars, batchvars, vlist>>

(* -------------------------------- groups ------------------------------- *)

\* The group objects of the application: null_group, four OrderedGroups and
\* three TextureGroups,
\*   1: OrderedGroup(1)      2: OrderedGroup(0)
\*   3: OrderedGroup(0, parent=group 1)      4: another OrderedGroup(1)
\*   5: TextureGroup(texture 1)      6: TextureGroup(texture 2)
\*   7: TextureGroup(texture 1, parent=group 1)
null_group == 0

Groups == 0 .. 7

TextureGroups == 5 .. 7

GroupClass(g) ==
    IF g = null_group THEN "NullGroup"
    ELSE IF g \in TextureGroups THEN "TextureGroup"
    ELSE "OrderedGroup"

\* AbstractGroup.__init__: self.parent.
GroupParent(g) == IF g = 3 \/ g = 7 THEN 1 ELSE None

\* OrderedGroup.__init__: self.order.
GroupOrder(g) == CASE g = 1 -> 1 [] g = 2 -> 0 [] g = 3 -> 0 [] g = 4 -> 1 [] OTHER -> None

\* TextureGroup.__init__: self.texture, as its (target, id).
GroupTexture(g) == CASE g = 5 -> 1 [] g = 6 -> 2 [] g = 7 -> 1 [] OTHER -> None

\* a == b.  OrderedGroup.__eq__ compares class, order and parent.
\* TextureGroup.__eq__ compares the textures' target and id and then
\* self.parent with self.parent, which for these groups is always true; the
\* other operand's class is not looked at (an operand without a texture
\* raises AttributeError, which no lookup of the batch meets: the hashes of
\* groups of different classes differ).  A NullGroup has no __eq__, so
\* Python asks the other operand and, both lacking one, compares identities.
\* None equals only None.
RECURSIVE GroupEq(_, _)
GroupEq(a, b) ==
    IF a = None \/ b = None THEN a = b
    ELSE IF GroupClass(a) = "OrderedGroup"
    THEN /\ GroupClass(a) = GroupClass(b)
         /\ GroupOrder(a) = GroupOrder(b)
         /\ GroupEq(GroupParent(a), GroupParent(b))
    ELSE IF GroupClass(a) = "TextureGroup"
    THEN /\ GroupClass(b) = "TextureGroup"
         /\ GroupTexture(a) = GroupTexture(b)
         /\ GroupEq(GroupParent(a), GroupParent(a))
    ELSE IF GroupClass(b) = "OrderedGroup"
    THEN FALSE
    ELSE IF GroupClass(b) = "TextureGroup"
    THEN FALSE
    ELSE a = b

\* hash(group).  OrderedGroup.__hash__ is hash((order, parent)) and
\* TextureGroup.__hash__ is hash((texture.target, texture.id, parent)); a
\* NullGroup hashes by identity.
RECURSIVE GroupHash(_)
GroupHash(g) ==
    IF g = None THEN <<"None">>
    ELSE IF GroupClass(g) = "OrderedGroup"
    THEN <<"OrderedGroup", GroupOrder(g), GroupHash(GroupParent(g))>>
    ELSE IF GroupClass(g) = "TextureGroup"
    THEN <<"TextureGroup", GroupTexture(g), GroupHash(GroupParent(g))>>
    ELSE <<"id", g>>

\* The classes of the groups in the order of their names.
ClassNames == <<"NullGroup", "OrderedGroup", "TextureGroup">>

ClassRank(g) == CHOOSE i \in DOMAIN ClassNames : ClassNames[i] = GroupClass(g)

\* cmp(a, b) as list.sort applies it.  OrderedGroup.__cmp__ compares the
\* orders of two OrderedGroups and answers -1 for any other group; asked with
\* the operands swapped, Python negates that answer.  Two groups without
\* __cmp__ get Python 2's default: the names of their classes when the
\* classes differ, their addresses when they are of one class.
GroupCmp(a, b) ==
    IF GroupClass(a) = "OrderedGroup" /\ GroupClass(b) = "OrderedGroup"
    THEN (IF GroupOrder(a) < GroupOrder(b) THEN -1
          ELSE IF GroupOrder(a) > GroupOrder(b) THEN 1 ELSE 0)
    ELSE IF GroupClass(a) = "OrderedGroup" THEN -1
    ELSE IF GroupClass(b) = "OrderedGroup" THEN 1
    ELSE IF a = b THEN 0
    ELSE IF GroupClass(a) # GroupClass(b)
    THEN (IF ClassRank(a) < ClassRank(b) THEN -1 ELSE 1)
    ELSE (IF address[a] < address[b] THEN -1 ELSE 1)

\* list.sort(): a stable sort; x goes before the first element it is less than.
SortInsert(s, x) ==
    LET after == {i \in 1 .. Len(s) : GroupCmp(x, s[i]) < 0}
        k == IF after = {} THEN Len(s) + 1 ELSE Min(after)
    IN SubSeq(s, 1, k - 1) \o <<x>> \o SubSeq(s, k, Len(s))

RECURSIVE SortGroups(_)
SortGroups(s) ==
    IF s = <<>> THEN <<>>
    ELSE SortInsert(SortGroups(SubSeq(s, 1, Len(s) - 1)), s[Len(s)])

\* `group in dict`: a stored key with the hash of `group` that is `group`
\* itself or equal to it.
HasKey(keys, g) == \E k \in keys : GroupHash(k) = GroupHash(g) /\ (k = g \/ GroupEq(k, g))

\* The stored key dict[group] resolves to.
Key(keys, g) == CHOOSE k \in keys : GroupHash(k) = GroupHash(g) /\ (k = g \/ GroupEq(k, g))

\* dict[group] = value.
DictSet(f, g, value) ==
    IF HasKey(DOMAIN f, g) THEN [f EXCEPT ![Key(DOMAIN f, g)] = value]
    ELSE (g :> value) @@ f

(* -------------------------------- Batch -------------------------------- *)

\* The fields of batch b.
BatchState(b) ==
    [group_map |-> group_map[b], group_children |-> group_children[b],
     top_groups |-> top_groups[b], draw_list |-> draw_list[b],
     dirty |-> draw_list_dirty[b]]

\* The fields of batch b become bs; the groups stay where they are in memory.
SetBatchState(b, bs) ==
    /\ address' = address
    /\ group_map' = [group_map EXCEPT ![b] = bs.group_map]
    /\ group_children' = [group_children EXCEPT ![b] = bs.group_children]
    /\ top_groups' = [top_groups EXCEPT ![b] = bs.top_groups]
    /\ draw_list' = [draw_list EXCEPT ![b] = bs.draw_list]
    /\ draw_list_dirty' = [draw_list_dirty EXCEPT ![b] = bs.dirty]

\* An _add_group that does not register the parent of the group.
_add_group_Orphan(bs, group) ==
    LET b1 == [bs EXCEPT !.group_map = DictSet(@, group, <<>>)]
        parent == GroupParent(group)
        b3 == IF ~HasKey(DOMAIN b1.group_children, parent)
              THEN [b1 EXCEPT !.group_children = DictSet(@, parent, <<>>)]
              ELSE b1
        b4 == IF parent = None
              THEN [b1 EXCEPT !.top_groups = Append(@, group)]
              ELSE [b3 EXCEPT !.group_children[Key(DOMAIN b3.group_children, parent)] =
                                  Append(@, group)]
    IN [b4 EXCEPT !.dirty = TRUE]

\* Batch._add_group(group).
RECURSIVE _add_group(_, _)
_add_group(bs, group) ==
    LET b1 == [bs EXCEPT !.group_map = DictSet(@, group, <<>>)]
        parent == GroupParent(group)
        b2 == IF ~HasKey(DOMAIN b1.group_map, parent) THEN _add_group(b1, parent) ELSE b1
        b3 == IF ~HasKey(DOMAIN b2.group_children, parent)
              THEN [b2 EXCEPT !.group_children = DictSet(@, parent, <<>>)]
              ELSE b2
        b4 == IF parent = None
              THEN [b1 EXCEPT !.top_groups = Append(@, group)]
              ELSE [b3 EXCEPT !.group_children[Key(DOMAIN b3.group_children, parent)] =
                                  Append(@, group)]
    IN [b4 EXCEPT !.dirty = TRUE]

\* The least domain id not in use: the id of the domain created next.
NewDomainId == Max(Domains) + 1

\* A _get_domain that creates the domain of a new key and does not set
\* _draw_list_dirty.
_get_domain_KeepsClean(bs, indexed, mode, group, formats) ==
    LET g == IF group = None THEN null_group ELSE group
        b1 == IF ~HasKey(DOMAIN bs.group_map, g) THEN _add_group(bs, g) ELSE bs
        gk == Key(DOMAIN b1.group_map, g)
        domain_map == b1.group_map[gk]
        key == [formats |-> formats, mode |-> mode, indexed |-> indexed]
    IN IF key \in DOMAIN domain_map
       THEN [bs |-> b1, domain |-> domain_map[key], created |-> FALSE]
       ELSE [bs |-> [b1 EXCEPT !.group_map[gk] = (key :> NewDomainId) @@ @],
             domain |-> NewDomainId, created |-> TRUE]

\* Batch._get_domain(indexed, mode, group, formats): the batch afterwards,
\* the domain, and whether it was created by this call.
_get_domain(bs, indexed, mode, group, formats) ==
    LET g == IF group = None THEN null_group ELSE group
        b1 == IF ~HasKey(DOMAIN bs.group_map, g) THEN _add_group(bs, g) ELSE bs
        gk == Key(DOMAIN b1.group_map, g)
        domain_map == b1.group_map[gk]
        key == [formats |-> formats, mode |-> mode, indexed |-> indexed]
    IN IF key \in DOMAIN domain_map
       THEN [bs |-> b1, domain |-> domain_map[key], created |-> FALSE]
       ELSE [bs |-> [b1 EXCEPT !.group_map[gk] = (key :> NewDomainId) @@ @,
                               !.dirty = TRUE],
             domain |-> NewDomainId, created |-> TRUE]

\* _parse_data(data): the formats, and the positions of the data items that
\* come with an initial array.  A data item is [format, array], array telling
\* whether it is a (format, array) tuple.
_parse_data(items) ==
    [formats |-> [i \in 1 .. Len(items) |-> items[i].format],
     initial_arrays |-> SelectSeq([i \in 1 .. Len(items) |-> i], LAMBDA i : items[i].array)]

\* The loop of Batch.add and Batch.add_indexed over initial_arrays: the array
\* given with the i-th data item goes to vlist._set_attribute_data(i, array).
RECURSIVE SetInitialArrays(_, _, _, _, _, _)
SetInitialArrays(contents, formats, start, count, l, initial_arrays) ==
    IF initial_arrays = <<>> THEN contents
    ELSE SetInitialArrays(
             _set_attribute_data(contents, attributes_of(usages_of(formats)), start, count,
                                 Head(initial_arrays), l,
                                 create_attribute(formats[Head(initial_arrays)].attribute).plural),
             formats, start, count, l, Tail(initial_arrays))

\* The index variables other than the version.
SetIndexBuffers(d, st) ==
    /\ index_capacity' = (d :> st.capacity) @@ index_capacity
    /\ index_regions' = (d :> st.regions) @@ index_regions
    /\ index_bufsize' = (d :> st.bufsize) @@ index_bufsize
    /\ index_data' = (d :> st.data) @@ index_data

\* name == attribute for a str and an attribute object of the list
\* self.attributes: an attribute is no str, and the two are never equal.
StrEqualsAttribute(name, attribute) == FALSE

\* `name in self.attributes`, self.attributes being the list of attributes.
NameInAttributes(name, attrs) ==
    \E i \in DOMAIN attrs : StrEqualsAttribute(name, attrs[i])

\* The assertions `name not in self.attributes` of VertexDomain.__init__
\* hold for every attribute.
NamesAsserted(attrs) ==
    \A i \in DOMAIN attrs : ~NameInAttributes(attrs[i].plural, attrs)

\* create_domain(*formats): a new VertexDomain of these formats.
CreateDomain(formats) ==
    /\ \E d \in {NewDomainId} :
       \E dom \in {NewDomain(formats)} :
          IF ~NamesAsserted(attributes_of(usages_of(formats)))
          THEN /\ lastOp' = Op("create_domain", None, None, "AssertionError", FALSE, FALSE)
               /\ UNCHANGED <<domvars, indexvars, layoutvars>>
          ELSE /\ SetDomState(d, dom)
               /\ SetIndexBuffers(d, IndexStateOf(dom))
               /\ domain_formats' = (d :> formats) @@ domain_formats
               /\ domain_indexed' = (d :> FALSE) @@ domain_indexed
               /\ batch_formats' = (d :> <<>>) @@ batch_formats
               /\ lastOp' = Op("create_domain", None, d, "none", FALSE, FALSE)
    /\ UNCHANGED <<batchvars, vlist>>

\* What lastOp keeps of the arguments of an add: the batch, the group, the
\* key (formats, mode, indexed), the positions of the data items given with
\* an initial array, the domain the call resolved to and the start of the
\* list it created there.
AddArg(b, group, indexed, mode, p, d, start) ==
    [batch |-> b, group |-> IF group = None THEN null_group ELSE group,
     key |-> [formats |-> p.formats, mode |-> mode, indexed |-> indexed],
     arrays |-> p.initial_arrays, domain |-> d, start |-> start]

\* Batch.add(count, mode, group, *data) on batch b; l is the list it returns.
BatchAdd(b, l, count, mode, group, items) ==
    /\ IsNew(l)
    /\ \E p \in {_parse_data(items)} :
       \E gd \in {_get_domain(BatchState(b), FALSE, mode, group, p.formats)} :
       \E d \in {gd.domain} :
       \E dom \in {IF gd.created THEN NewDomain(p.formats) ELSE DomState(d)} :
       \* vlist = domain.create(count)
       \E r \in {_safe_alloc(dom, count)} :
          /\ r.st.capacity <= MaxCapacity
          /\ SetBatchState(b, gd.bs)
          /\ domain_formats' = (d :> p.formats) @@ domain_formats
          /\ domain_indexed' = (d :> FALSE) @@ domain_indexed
          /\ batch_formats' = (d :> p.formats) @@ batch_formats
          /\ SetIndexBuffers(d, IndexStateOf(dom))
          /\ IF r.raised
             THEN /\ SetDomState(d, r.st)
                  /\ vlist' = vlist
                  /\ lastOp' = Op("add", l, AddArg(b, group, FALSE, mode, p, d, None),
                                  "AllocatorMemoryException", FALSE, r.st.version # dom.version)
             ELSE /\ SetDomState(d, [r.st EXCEPT !.data =
                          SetInitialArrays(@, p.formats, r.start, count, l, p.initial_arrays)])
                  /\ vlist' = [vlist EXCEPT ![l] =
                          [NoList EXCEPT !.state = "live", !.domain = d,
                                         !.start = r.start, !.count = count]]
                  /\ lastOp' = Op("add", l, AddArg(b, group, FALSE, mode, p, d, r.start),
                                  "none", FALSE, r.st.version # dom.version)

\* Batch.add_indexed(count, mode, group, indices, *data) on batch b, with
\* index_count indices I(0), I(1), ...
BatchAddIndexed(b, l, count, mode, group, index_count, items) ==
    /\ IsNew(l)
    /\ \E p \in {_parse_data(items)} :
       \E gd \in {_get_domain(BatchState(b), TRUE, mode, group, p.formats)} :
       \E d \in {gd.domain} :
       \E dom \in {IF gd.created THEN NewDomain(p.formats) ELSE DomState(d)} :
       \* vlist = domain.create(count, len(indices))
       \E r \in {_safe_alloc(dom, count)} :
       \E ir \in {_safe_index_alloc(IndexStateOf(r.st), index_count)} :
          /\ r.st.capacity <= MaxCapacity
          /\ ir.st.capacity <= MaxCapacity
          /\ ~r.raised /\ ~ir.raised
          /\ SetBatchState(b, gd.bs)
          /\ domain_formats' = (d :> p.formats) @@ domain_formats
          /\ domain_indexed' = (d :> TRUE) @@ domain_indexed
          /\ batch_formats' = IF gd.created THEN (d :> <<>>) @@ batch_formats
                              ELSE batch_formats
          /\ SetDomState(d, [r.st EXCEPT
                 !.data = SetInitialArrays(@, p.formats, r.start, count, l, p.initial_arrays),
                 !.version = ir.st.version])
          \* vlist._set_index_data(map(lambda i: i + start, indices))
          /\ SetIndexBuffers(d, [ir.st EXCEPT !.data =
                 [i \in DOMAIN @ |->
                     IF ir.start <= i /\ i < ir.start + index_count
                     THEN I(i - ir.start) + r.start
                     ELSE @[i]]])
          /\ vlist' = [vlist EXCEPT ![l] =
                 [NoList EXCEPT !.state = "live", !.domain = d,
                                !.start = r.start, !.count = count,
                                !.index_start = ir.start, !.index_count = index_count,
                                !.retained = index_count]]
          /\ lastOp' = Op("add_indexed", l, AddArg(b, group, TRUE, mode, p, d, r.start),
                          "none", FALSE, ir.st.version # dom.version)

\* Batch.migrate(vertex_list, mode, group, batch), l the vertex list and b
\* the batch it goes to: the formats are those Batch.add left on the list's
\* domain, the domain is the one b resolves them to, and the list migrates
\* to it.  A domain without __formats raises AttributeError.
BatchMigrate(l, mode, group, b) ==
    /\ IsLive(l)
    /\ \E v \in {vlist[l]} :
       \E d \in {v.domain} :
       IF batch_formats[d] = <<>>
       THEN /\ lastOp' = Op("batch_migrate", l, None, "AttributeError", FALSE, FALSE)
            /\ UNCHANGED <<domvars, indexvars, layoutvars, batchvars, vlist>>
       ELSE
       \E gd \in {_get_domain(BatchState(b), FALSE, mode, group, batch_formats[d])} :
       \E d2 \in {gd.domain} :
       \E dom2 \in {IF gd.created THEN NewDomain(batch_formats[d]) ELSE DomState(d2)} :
       \* vertex_list.migrate(domain); the two domains have the same formats,
       \* so its assertion on the attribute names holds
       \E a \in {MigrateAlloc(dom2, v.count)} :
          /\ SetBatchState(b, gd.bs)
          /\ domain_formats' = (d2 :> dom2.formats) @@ domain_formats
          /\ domain_indexed' = (d2 :> FALSE) @@ domain_indexed
          /\ batch_formats' = IF gd.created THEN (d2 :> <<>>) @@ batch_formats
                              ELSE batch_formats
          /\ SetIndexBuffers(d2, IndexStateOf(dom2))
          /\ capacity' = (d2 :> dom2.capacity) @@ capacity
          /\ version' = (d2 :> dom2.version) @@ version
          /\ bufsize' = (d2 :> dom2.bufsize) @@ bufsize
          /\ IF a.raised
             THEN /\ regions' = (d2 :> dom2.regions) @@ regions
                  /\ data' = (d2 :> dom2.data) @@ data
                  /\ vlist' = vlist
                  /\ lastOp' = Op("batch_migrate", l, d2, "AllocatorMemoryException",
                                  FALSE, FALSE)
             ELSE /\ regions' = [(d2 :> a.regions) @@ regions
                                    EXCEPT ![d] = AllocatorDealloc(@, v.start, v.count)]
                  /\ data' = (d2 :> MigrateCopy(attribute_names(d), data[d], dom2.data,
                                                v.start, a.start, v.count)) @@ data
                  /\ vlist' = [vlist EXCEPT ![l] = [v EXCEPT !.domain = d2, !.start = a.start]]
                  /\ lastOp' = Op("batch_migrate", l, d2, "none", TRUE, FALSE)

\* An entry of the draw list: group.set_state, group.unset_state, or the
\* closure that calls domain.draw(mode).
DrawOp(op, group, domain, mode) == [op |-> op, group |-> group, domain |-> domain, mode |-> mode]

\* The draws of the domains of a group that have a list.
RECURSIVE DomainDraws_SkipsEmpty(_)
DomainDraws_SkipsEmpty(domain_map) ==
    IF DOMAIN domain_map = {} THEN <<>>
    ELSE LET key == CHOOSE k \in DOMAIN domain_map :
                        \A j \in DOMAIN domain_map : domain_map[k] <= domain_map[j]
         IN (IF regions[domain_map[key]] = {} THEN <<>>
             ELSE <<DrawOp("draw", None, domain_map[key], key.mode)>>)
            \o DomainDraws_SkipsEmpty([k \in DOMAIN domain_map \ {key} |-> domain_map[k]])

\* The draws of the domains of a group, for domain_map.items() in the order
\* of the domains' creation.
RECURSIVE DomainDraws(_)
DomainDraws(domain_map) ==
    IF DOMAIN domain_map = {} THEN <<>>
    ELSE LET key == CHOOSE k \in DOMAIN domain_map :
                        \A j \in DOMAIN domain_map : domain_map[k] <= domain_map[j]
         IN <<DrawOp("draw", None, domain_map[key], key.mode)>>
            \o DomainDraws([k \in DOMAIN domain_map \ {key} |-> domain_map[k]])

\* visit(group) of Batch._update_draw_list, and its loop over the sorted
\* children: bs carries the draw list being built and the children lists
\* that children.sort() sorts in place.
RECURSIVE visit(_, _)
RECURSIVE VisitAll(_, _)

\* A visit that appends group.unset_state before it visits the children.
visit_UnsetsEarly(bs, group) ==
    LET b1 == [bs EXCEPT !.draw_list =
                  Append(@, DrawOp("set_state", group, None, None))
                  \o DomainDraws(bs.group_map[Key(DOMAIN bs.group_map, group)])
                  \o <<DrawOp("unset_state", group, None, None)>>]
        has == HasKey(DOMAIN b1.group_children, group)
        ck == Key(DOMAIN b1.group_children, group)
    IN IF has /\ b1.group_children[ck] # <<>>
       THEN VisitAll([b1 EXCEPT !.group_children[ck] = SortGroups(@)],
                     SortGroups(b1.group_children[ck]))
       ELSE b1

visit(bs, group) ==
    LET b1 == [bs EXCEPT !.draw_list =
                  Append(@, DrawOp("set_state", group, None, None))
                  \o DomainDraws(bs.group_map[Key(DOMAIN bs.group_map, group)])]
        has == HasKey(DOMAIN b1.group_children, group)
        ck == Key(DOMAIN b1.group_children, group)
        b2 == IF has /\ b1.group_children[ck] # <<>>
              THEN VisitAll([b1 EXCEPT !.group_children[ck] = SortGroups(@)],
                            SortGroups(b1.group_children[ck]))
              ELSE b1
    IN [b2 EXCEPT !.draw_list = Append(@, DrawOp("unset_state", group, None, None))]

VisitAll(bs, groups) ==
    IF groups = <<>> THEN bs ELSE VisitAll(visit(bs, Head(groups)), Tail(groups))

\* An _update_draw_list that rebuilds the list and leaves the batch Dirty.
_update_draw_list_StaysDirty(bs) ==
    LET b1 == [bs EXCEPT !.top_groups = SortGroups(@), !.draw_list = <<>>]
    IN VisitAll(b1, b1.top_groups)

\* Batch._update_draw_list().
_update_draw_list(bs) ==
    LET b1 == [bs EXCEPT !.top_groups = SortGroups(@), !.draw_list = <<>>]
    IN [VisitAll(b1, b1.top_groups) EXCEPT !.dirty = FALSE]

\* A draw that marks the batch Clean and executes the list it has.
Draw_SkipsRebuild(b) ==
    /\ SetBatchState(b, [BatchState(b) EXCEPT !.dirty = FALSE])
    /\ lastOp' = Op("draw", None, [batch |-> b, rebuilt |-> draw_list_dirty[b]],
                    "none", FALSE, FALSE)
    /\ UNCHANGED <<domvars, indexvars, layoutvars, vlist>>

\* Batch.draw(): the draw list is rebuilt when dirty, then every entry of it
\* is called; the calls change nothing the batch or the domains keep.
Draw(b) ==
    /\ SetBatchState(b, IF draw_list_dirty[b] THEN _update_draw_list(BatchState(b))
                        ELSE BatchState(b))
    /\ lastOp' = Op("draw", None, [batch |-> b, rebuilt |-> draw_list_dirty[b]],
                    "none", FALSE, FALSE)
    /\ UNCHANGED <<domvars, indexvars, layoutvars, vlist>>

\* Batch.draw_subset(vertex_lists): the same walk as _update_draw_list, with
\* the same top_groups.sort() and children.sort(), calling the groups and the
\* given lists instead of building a list; _draw_list and _draw_list_dirty
\* are not touched.
draw_subset(bs) ==
    LET walked == _update_draw_list(bs)
    IN [bs EXCEPT !.top_groups = walked.top_groups,
                  !.group_children = walked.group_children]

DrawSubset(b) ==
    /\ SetBatchState(b, draw_subset(BatchState(b)))
    /\ lastOp' = Op("draw_subset", None, b, "none", FALSE, FALSE)
    /\ UNCHANGED <<domvars, indexvars, layoutvars, vlist>>

(* ------------------------------ documents ------------------------------ *)
(* One document of pyglet.text.document, formatted or unformatted, and the *)
(* inline elements of the application.  A text is a sequence of            *)
(* characters; NUL is the '\0' that stands for an element and PS the       *)
(* paragraph separator U+2029.                                             *)

NUL == "NUL"

PS == "PS"

Elements == {"e1", "e2"}

\* The style attributes the application sets, one of characters and one of
\* paragraphs; their values are numbers.
Attributes == {"bold", "indent"}

\* text[lo:hi] of Python: negative bounds count from the end, and bounds
\* outside the text are clipped.
PyBound(n, i) == IF i < 0 THEN Max({n + i, 0}) ELSE Min({i, n})

Slice(s, lo, hi) == SubSeq(s, PyBound(Len(s), lo) + 1, PyBound(Len(s), hi))

\* runlist.RunList: a sequence of runs [value, count].  The values of the
\* runs, position by position.
RECURSIVE Expand(_)
Expand(runs) ==
    IF runs = <<>> THEN <<>>
    ELSE [i \in 1 .. Head(runs).count |-> Head(runs).value] \o Expand(Tail(runs))

\* The runs of a sequence of values: maximal, so no two adjacent runs have
\* the same value; a RunList never has an empty list of runs.
RECURSIVE Compress(_)
Compress(values) ==
    IF values = <<>> THEN <<[value |-> None, count |-> 0]>>
    ELSE LET rest == Compress(Tail(values)) IN
         IF rest[1].count > 0 /\ rest[1].value = Head(values)
         THEN <<[value |-> Head(values), count |-> rest[1].count + 1]>> \o Tail(rest)
         ELSE IF rest[1].count = 0 THEN <<[value |-> Head(values), count |-> 1]>>
         ELSE <<[value |-> Head(values), count |-> 1]>> \o rest

\* RunList(size, initial).
RunList(size, initial) == <<[value |-> initial, count |-> size]>>

\* RunList.insert(pos, length): the run that contains pos, the earlier one
\* at a boundary, grows by length.
RunInsert(runs, pos, length) ==
    LET values == Expand(runs)
        value == IF values = <<>> THEN runs[1].value
                 ELSE IF pos = 0 THEN values[1] ELSE values[pos]
    IN Compress(SubSeq(values, 1, pos) \o [i \in 1 .. length |-> value]
                \o SubSeq(values, pos + 1, Len(values)))

\* RunList.delete(start, end).
RunDelete(runs, start, end) ==
    Compress(SubSeq(Expand(runs), 1, start) \o SubSeq(Expand(runs), end + 1, Len(Expand(runs))))

\* RunList.set_run(start, end, value).
RunSetRun(runs, start, end, value) ==
    Compress([i \in 1 .. Len(Expand(runs)) |->
                 IF start < i /\ i <= end THEN value ELSE Expand(runs)[i]])

DocumentClasses == {"FormattedDocument", "UnformattedDocument"}

\* AbstractDocument.__init__, FormattedDocument.__init__ and
\* UnformattedDocument.__init__ with no text.
NewDocument(class) ==
    [class |-> class, text |-> <<>>, elements |-> <<>>, style_runs |-> <<>>, styles |-> <<>>]

\* What a handler called during a dispatch can read: the document and the
\* elements' positions.
Seen(doc, position) == [document |-> doc, position |-> position]

\* EventDispatcher.dispatch_event(event_type, *args): the handlers run
\* before it returns, with the document as it is; log is the notifications
\* of the call so far.
dispatch_event(log, event_type, args, seen) ==
    Append(log, [event_type |-> event_type, args |-> args, seen |-> seen])

\* An _insert_text that gives the run list of a new attribute the length the
\* text had before the insertion.
_insert_text_ShortRuns(s, start, text, attrs) ==
    LET new_text == Slice(s.document.text, 0, start) \o text
                    \o Slice(s.document.text, start, Len(s.document.text))
        runs == s.document.style_runs
        inserted == [a \in DOMAIN runs |-> RunInsert(runs[a], start, Len(text))]
        styled == [a \in DOMAIN runs \cup DOMAIN attrs |->
                      IF a \in DOMAIN attrs
                      THEN RunSetRun(IF a \in DOMAIN runs THEN inserted[a]
                                     ELSE RunInsert(RunList(0, None), 0, Len(s.document.text)),
                                     start, start + Len(text), attrs[a])
                      ELSE inserted[a]]
    IN Seen([s.document EXCEPT
                 !.text = new_text,
                 !.style_runs = IF s.document.class = "FormattedDocument" THEN styled ELSE @],
            s.position)

\* AbstractDocument._insert_text and FormattedDocument._insert_text on the
\* document and positions of s; attributes is a dictionary, empty for None.
_insert_text(s, start, text, attrs) ==
    LET new_text == Slice(s.document.text, 0, start) \o text
                    \o Slice(s.document.text, start, Len(s.document.text))
        len_text == Len(text)
        position == [e \in Elements |->
                        IF /\ \E i \in DOMAIN s.document.elements : s.document.elements[i] = e
                           /\ s.position[e] >= start
                        THEN s.position[e] + len_text
                        ELSE s.position[e]]
        runs == s.document.style_runs
        inserted == [a \in DOMAIN runs |-> RunInsert(runs[a], start, len_text)]
        styled == [a \in DOMAIN runs \cup DOMAIN attrs |->
                      IF a \in DOMAIN attrs
                      THEN RunSetRun(IF a \in DOMAIN runs THEN inserted[a]
                                     ELSE RunInsert(RunList(0, None), 0, Len(new_text)),
                                     start, start + len_text, attrs[a])
                      ELSE inserted[a]]
    IN Seen([s.document EXCEPT
                 !.text = new_text,
                 !.style_runs = IF s.document.class = "FormattedDocument" THEN styled ELSE @],
            position)

\* A call of insert_text that dispatches first and mutates afterwards.
insert_text_DispatchesFirst(s, log, start, text, attrs) ==
    [seen |-> _insert_text(s, start, text, attrs),
     log |-> dispatch_event(log, "on_insert_text", <<start, text>>, s)]

\* AbstractDocument.insert_text(start, text, attributes).
insert_text(s, log, start, text, attrs) ==
    [seen |-> _insert_text(s, start, text, attrs),
     log |-> dispatch_event(log, "on_insert_text", <<start, text>>,
                            _insert_text(s, start, text, attrs))]

\* A _delete_text that leaves the style runs of a FormattedDocument alone.
_delete_text_KeepsRuns(s, start, end) ==
    LET IsKept(e) == ~(start <= s.position[e] /\ s.position[e] < end)
    IN Seen([s.document EXCEPT
                 !.elements = SelectSeq(@, IsKept),
                 !.text = Slice(@, 0, start) \o Slice(@, end, Len(@))],
            s.position)

\* AbstractDocument._delete_text and FormattedDocument._delete_text.
_delete_text(s, start, end) ==
    LET IsKept(e) == ~(start <= s.position[e] /\ s.position[e] < end)
        runs == s.document.style_runs
    IN Seen([s.document EXCEPT
                 !.elements = SelectSeq(@, IsKept),
                 !.text = Slice(@, 0, start) \o Slice(@, end, Len(@)),
                 !.style_runs = IF s.document.class = "FormattedDocument"
                                THEN [a \in DOMAIN runs |-> RunDelete(runs[a], start, end)]
                                ELSE @],
            s.position)

\* AbstractDocument.delete_text(start, end).
delete_text(s, log, start, end) ==
    [seen |-> _delete_text(s, start, end),
     log |-> dispatch_event(log, "on_delete_text", <<start, end>>, _delete_text(s, start, end))]

\* FormattedDocument._set_style and UnformattedDocument._set_style.
_set_style(s, start, end, attrs) ==
    LET runs == s.document.style_runs IN
    Seen(IF s.document.class = "FormattedDocument"
         THEN [s.document EXCEPT !.style_runs =
                  [a \in DOMAIN runs \cup DOMAIN attrs |->
                      IF a \in DOMAIN attrs
                      THEN RunSetRun(IF a \in DOMAIN runs THEN runs[a]
                                     ELSE RunInsert(RunList(0, None), 0, Len(s.document.text)),
                                     start, end, attrs[a])
                      ELSE runs[a]]]
         ELSE [s.document EXCEPT !.styles = attrs @@ @],
         s.position)

\* AbstractDocument.set_style(start, end, attributes), which
\* UnformattedDocument.set_style calls with (0, len(self.text), attributes).
AbstractDocument_set_style(s, log, start, end, attrs) ==
    [seen |-> _set_style(s, start, end, attrs),
     log |-> dispatch_event(log, "on_style_text", <<start, end, attrs>>,
                            _set_style(s, start, end, attrs))]

set_style(s, log, start, end, attrs) ==
    IF s.document.class = "UnformattedDocument"
    THEN AbstractDocument_set_style(s, log, 0, Len(s.document.text), attrs)
    ELSE AbstractDocument_set_style(s, log, start, end, attrs)

IsSeparator(c) == c = "\n" \/ c = PS

\* AbstractDocument.get_paragraph_start(pos): pos when text[:pos + 1] ends
\* with a separator; else one past the '\n' that _previous_paragraph_re finds
\* in text[0:pos + 1], a '\n' with no separator between it and the end; else 0.
get_paragraph_start(text, pos) ==
    LET head == Slice(text, 0, pos + 1)
        found == {i \in DOMAIN head :
                     /\ head[i] = "\n"
                     /\ \A j \in i + 1 .. Len(head) : ~IsSeparator(head[j])}
    IN IF head # <<>> /\ IsSeparator(head[Len(head)]) THEN pos
       ELSE IF found = {} THEN 0
       ELSE Min(found)

\* AbstractDocument.get_paragraph_end(pos): one past the first separator at
\* or after pos, else len(text).
get_paragraph_end(text, pos) ==
    LET found == {i \in DOMAIN text : i > pos /\ IsSeparator(text[i])}
    IN IF found = {} THEN Len(text) ELSE Min(found)

\* AbstractDocument.set_paragraph_style(start, end, attributes), which
\* UnformattedDocument.set_paragraph_style calls with (0, len(self.text),
\* attributes).
AbstractDocument_set_paragraph_style(s, log, start, end, attrs) ==
    LET first == get_paragraph_start(s.document.text, start)
        last == get_paragraph_end(s.document.text, end)
    IN [seen |-> _set_style(s, first, last, attrs),
        log |-> dispatch_event(log, "on_style_text", <<first, last, attrs>>,
                               _set_style(s, first, last, attrs))]

\* A set_paragraph_style that UnformattedDocument does not override.
set_paragraph_style_AsGiven(s, log, start, end, attrs) ==
    AbstractDocument_set_paragraph_style(s, log, start, end, attrs)

set_paragraph_style(s, log, start, end, attrs) ==
    IF s.document.class = "UnformattedDocument"
    THEN AbstractDocument_set_paragraph_style(s, log, 0, Len(s.document.text), attrs)
    ELSE AbstractDocument_set_paragraph_style(s, log, start, end, attrs)

\* STYLE_INDETERMINATE, the marker 'indeterminate'; the style values of the
\* application are numbers from 0.
STYLE_INDETERMINATE == -2

\* The position where run k of a run list starts.
RECURSIVE RunStart(_, _)
RunStart(runs, k) == IF k = 1 THEN 0 ELSE RunStart(runs, k - 1) + runs[k - 1].count

\* RunIterator.ranges(start, end): the <<start, end, value>> of the parts
\* of the runs inside [start, end), in order.
ranges(runs, start, end) ==
    LET Part(k) == <<Max({RunStart(runs, k), start}),
                    Min({RunStart(runs, k) + runs[k].count, end}),
                    runs[k].value>>
        IsInside(part) == part[1] < part[2]
    IN SelectSeq([k \in DOMAIN runs |-> Part(k)], IsInside)

\* FormattedDocument.get_style and UnformattedDocument.get_style.
get_style(doc, attribute, position) ==
    IF doc.class = "UnformattedDocument"
    THEN IF attribute \in DOMAIN doc.styles THEN doc.styles[attribute] ELSE None
    ELSE IF attribute \in DOMAIN doc.style_runs
         THEN Expand(doc.style_runs[attribute])[position + 1]
         ELSE None

\* The first triple of get_style_runs(attribute).ranges(start, end): of a
\* ConstRunIterator for an UnformattedDocument, of _no_style_range_iterator
\* for an attribute without runs, of the run list's iterator otherwise.
FirstRange(doc, attribute, start, end) ==
    IF doc.class = "UnformattedDocument"
    THEN <<start, end, IF attribute \in DOMAIN doc.styles THEN doc.styles[attribute] ELSE None>>
    ELSE IF attribute \in DOMAIN doc.style_runs
         THEN Head(ranges(doc.style_runs[attribute], start, end))
         ELSE <<start, end, None>>

\* A get_style_range that returns the value of the first run it meets.
get_style_range_FirstValue(doc, attribute, start, end) ==
    FirstRange(doc, attribute, start, end)[3]

\* AbstractDocument.get_style_range(attribute, start, end).
get_style_range(doc, attribute, start, end) ==
    IF FirstRange(doc, attribute, start, end)[2] < end
    THEN STYLE_INDETERMINATE
    ELSE FirstRange(doc, attribute, start, end)[3]

\* An _iter_elements that yields the elements' runs only, and the run after
\* the last.
RECURSIVE _iter_elements_ElementsOnly(_, _, _, _)
_iter_elements_ElementsOnly(elements, position, length, last) ==
    IF elements = <<>> THEN << <<last, length, None>> >>
    ELSE << <<position[Head(elements)], position[Head(elements)] + 1, Head(elements)>> >>
         \o _iter_elements_ElementsOnly(Tail(elements), position, length,
                                        position[Head(elements)] + 1)

\* _iter_elements(elements, length): for each element the run of None from
\* `last` to its position and the run of the element itself, then the run
\* of None from `last` to length.  `last` is 0 at the start.
RECURSIVE _iter_elements(_, _, _, _)
_iter_elements(elements, position, length, last) ==
    IF elements = <<>> THEN << <<last, length, None>> >>
    ELSE << <<last, position[Head(elements)], None>>,
            <<position[Head(elements)], position[Head(elements)] + 1, Head(elements)>> >>
         \o _iter_elements(Tail(elements), position, length, position[Head(elements)] + 1)

\* RunIterator.ranges(start, end) of an iterator over <<start, end, value>>
\* runs: the runs that reach into [start, end), clipped to it.
IteratorRanges(runs, start, end) ==
    LET Reaches(run) == run[1] < end /\ run[2] > start /\ run[1] < run[2]
        Clip(run) == <<Max({run[1], start}), Min({run[2], end}), run[3]>>
        inside == SelectSeq(runs, Reaches)
    IN [k \in DOMAIN inside |-> Clip(inside[k])]

\* get_element_runs().ranges(start, end): of a ConstRunIterator for an
\* UnformattedDocument, of an _ElementIterator for a FormattedDocument.
ElementRanges(doc, position, start, end) ==
    IF doc.class = "UnformattedDocument"
    THEN << <<start, end, None>> >>
    ELSE IteratorRanges(_iter_elements(doc.elements, position, Len(doc.text), 0), start, end)

\* get_style_runs(attribute).ranges(start, end): of a ConstRunIterator for
\* an UnformattedDocument, of _no_style_range_iterator for an attribute
\* without runs, of the run list's iterator otherwise.
StyleRanges(doc, attribute, start, end) ==
    IF doc.class = "UnformattedDocument"
    THEN << <<start, end,
              IF attribute \in DOMAIN doc.styles THEN doc.styles[attribute] ELSE None>> >>
    ELSE IF attribute \in DOMAIN doc.style_runs
         THEN ranges(doc.style_runs[attribute], start, end)
         ELSE << <<start, end, None>> >>

\* list.sort(key=lambda d: d.position) of the elements: stable, by position.
RECURSIVE SortElements(_, _)
SortElements(elements, position) ==
    IF elements = <<>> THEN <<>>
    ELSE LET sorted == SortElements(SubSeq(elements, 1, Len(elements) - 1), position)
             x == elements[Len(elements)]
             after == {i \in DOMAIN sorted : position[x] < position[sorted[i]]}
             k == IF after = {} THEN Len(sorted) + 1 ELSE Min(after)
         IN SubSeq(sorted, 1, k - 1) \o <<x>> \o SubSeq(sorted, k, Len(sorted))

\* The document and the elements now.
Now == Seen(document, _position)

\* The history a run can keep of its last call on the document: the
\* document and the positions the call began with, and the call before it.
History == [now |-> Now, call |-> lastOp]

\* The call `op` with arguments `args` leaves document and positions `seen`
\* and has dispatched `log`.
Called(op, args, seen, log) ==
    /\ document' = seen.document
    /\ _position' = seen.position
    /\ dispatched' = log
    /\ lastOp' = Op(op, None, args, "none", FALSE, FALSE)

InsertText(start, text, attrs) ==
    \E r \in {insert_text(Now, <<>>, start, text, attrs)} :
        Called("insert_text", <<start, text, attrs>>, r.seen, r.log)

DeleteText(start, end) ==
    \E r \in {delete_text(Now, <<>>, start, end)} :
        Called("delete_text", <<start, end>>, r.seen, r.log)

SetStyle(start, end, attrs) ==
    \E r \in {set_style(Now, <<>>, start, end, attrs)} :
        Called("set_style", <<start, end, attrs>>, r.seen, r.log)

SetParagraphStyle(start, end, attrs) ==
    \E r \in {set_paragraph_style(Now, <<>>, start, end, attrs)} :
        Called("set_paragraph_style", <<start, end, attrs>>, r.seen, r.log)

\* The application reads get_style_range(attribute, start, end).
GetStyleRange(attribute, start, end) ==
    /\ lastOp' = Op("get_style_range", None,
                    [attribute |-> attribute, start |-> start, end |-> end,
                     returned |-> get_style_range(document, attribute, start, end)],
                    "none", FALSE, FALSE)
    /\ dispatched' = <<>>
    /\ UNCHANGED <<document, _position>>

\* An insert_element without its assertion.
InsertElement_Unchecked(position, element, attrs) ==
    \E r \in {insert_text(Now, <<>>, position, <<NUL>>, attrs)} :
    \E placed \in {[r.seen.position EXCEPT ![element] = position]} :
        Called("insert_element", <<position, element>>,
               Seen([r.seen.document EXCEPT
                         !.elements = SortElements(Append(@, element), placed)],
                    placed),
               r.log)

\* AbstractDocument.insert_element(position, element, attributes): the
\* assertion, insert_text of the '\0', then the element is placed, appended
\* and the list sorted.
InsertElement(position, element, attrs) ==
    IF _position[element] # None
    THEN /\ lastOp' = Op("insert_element", None, <<position, element>>, "AssertionError",
                         FALSE, FALSE)
         /\ dispatched' = <<>>
         /\ UNCHANGED <<document, _position>>
    ELSE \E r \in {insert_text(Now, <<>>, position, <<NUL>>, attrs)} :
         \E placed \in {[r.seen.position EXCEPT ![element] = position]} :
             Called("insert_element", <<position, element>>,
                    Seen([r.seen.document EXCEPT
                              !.elements = SortElements(Append(@, element), placed)],
                         placed),
                    r.log)

(* --------------------------- specifications ---------------------------- *)

\* The vertex counts the application asks for.
Counts == {3, 5, 12}

PlainDomains == {1, 2}

\* One more operation of the run.
Call == nops < MaxOps /\ nops' = nops + 1 /\ UNCHANGED docvars

Next ==
    \/ \E l \in Lists, d \in PlainDomains, c \in Counts : Call /\ Create(l, d, c)
    \/ \E l \in Lists, c \in Counts : Call /\ Resize(l, c)
    \/ \E l \in Lists : Call /\ Delete(l)
    \/ \E l \in Lists, d \in PlainDomains : Call /\ Migrate(l, d)
    \/ \E l \in Lists : Call /\ SetData(l)

\* The application's document, new and empty, and its elements, not placed.
InitDocument(class) ==
    /\ document = NewDocument(class)
    /\ _position = [e \in Elements |-> None]
    /\ dispatched = <<>>
    /\ before = [now |-> Seen(NewDocument(class), [e \in Elements |-> None]),
                 call |-> NoOp]

\* The addresses the TextureGroups can have: any, no two the same.
Addresses ==
    {f \in [TextureGroups -> 1 .. Cardinality(TextureGroups)] :
        \A x, y \in TextureGroups : x # y => f[x] # f[y]}

\* The TextureGroups at ascending addresses, as one run of the application
\* can have them.  Only the sort of sibling TextureGroups reads the
\* addresses, and the runs that do it start from InitGroups.
Init ==
    /\ InitObjects
    /\ address = [g \in TextureGroups |-> g - 4]
    /\ InitDocument("FormattedDocument")

\* The same objects with the TextureGroups anywhere in memory.
InitGroups == InitObjects /\ address \in Addresses /\ InitDocument("FormattedDocument")

Spec == Init /\ [][Next]_vars

\* The <<vertex count, index count>> pairs the application asks for.
IndexedShapes == {<<3, 3>>, <<5, 3>>, <<3, 6>>, <<12, 14>>}

\* One indexed domain: Batch.add_indexed, the lists' resize and delete.
IndexedCall == nops < MaxIndexedOps /\ nops' = nops + 1 /\ UNCHANGED docvars

NextIndexed ==
    \/ \E l \in Lists, s \in IndexedShapes : IndexedCall /\ AddIndexed(l, s[1], s[2])
    \/ \E l \in Lists, s \in IndexedShapes : IndexedCall /\ ResizeIndexed(l, s[1], s[2])
    \/ \E l \in Lists : IndexedCall /\ DeleteIndexed(l)

SpecIndexed == Init /\ [][NextIndexed]_vars

\* The indexed domain when graphics memory can run out.
NextIndexedOOM ==
    \/ NextIndexed
    \/ \E l \in Lists, s \in IndexedShapes : IndexedCall /\ AddIndexedFails(l, s[1], s[2])

SpecIndexedOOM == Init /\ [][NextIndexedOOM]_vars

\* Two plain domains, with the application reading the lists' attributes.
NextCache ==
    \/ Next
    \/ \E l \in Lists, n \in AttrNames : Call /\ GetAttribute(l, n)

SpecCache == Init /\ [][NextCache]_vars

\* The data the application passes to add and add_indexed: texture
\* coordinates given with an array and positions without, or positions alone.
TexturedData ==
    << [format |-> [attribute |-> "t2f", usage |-> "static"], array |-> TRUE],
       [format |-> [attribute |-> "v3f", usage |-> ""], array |-> FALSE] >>

PlainData == << [format |-> [attribute |-> "v3f", usage |-> ""], array |-> FALSE] >>

\* The <<batch, mode, group, data>> of the application's add and add_indexed
\* calls: without a group and with null_group, in two modes; with each of
\* the ordered groups; in the second batch.
AddCalls ==
    { <<1, "GL_TRIANGLES", None, TexturedData>>,
      <<1, "GL_TRIANGLES", null_group, TexturedData>>,
      <<1, "GL_LINES", None, TexturedData>>,
      <<1, "GL_TRIANGLES", 1, PlainData>>,
      <<1, "GL_TRIANGLES", 2, PlainData>>,
      <<1, "GL_TRIANGLES", 3, PlainData>>,
      <<1, "GL_TRIANGLES", 4, PlainData>>,
      <<2, "GL_TRIANGLES", 2, PlainData>> }

\* The add_indexed calls among them: without a group, with a nested group,
\* in the second batch.
IndexedAddCalls ==
    { <<1, "GL_TRIANGLES", None, TexturedData>>,
      <<1, "GL_TRIANGLES", 3, PlainData>>,
      <<2, "GL_TRIANGLES", 2, PlainData>> }

\* The <<batch, mode, group>> Batch.migrate is called with: a group equal to
\* one already in the batch, a nested group, another mode, the other batch.
MigrateCalls ==
    { <<1, "GL_TRIANGLES", 4>>,
      <<1, "GL_TRIANGLES", 3>>,
      <<1, "GL_LINES", None>>,
      <<2, "GL_TRIANGLES", 2>> }

BatchCall == nops < MaxBatchOps /\ nops' = nops + 1 /\ UNCHANGED docvars

\* Two batches: add, add_indexed, migrate, draw and draw_subset, and the
\* lists' delete.
NextBatch ==
    \/ \E l \in Lists, c \in AddCalls :
           BatchCall /\ BatchAdd(c[1], l, 3, c[2], c[3], c[4])
    \/ \E l \in Lists, c \in IndexedAddCalls :
           BatchCall /\ BatchAddIndexed(c[1], l, 3, c[2], c[3], 3, c[4])
    \/ \E l \in Lists, c \in MigrateCalls :
           BatchCall /\ BatchMigrate(l, c[2], c[3], c[1])
    \/ \E b \in Batches : BatchCall /\ Draw(b)
    \/ \E b \in Batches : BatchCall /\ DrawSubset(b)
    \/ \E l \in Lists : BatchCall /\ Delete(l)
    \/ \E l \in Lists : BatchCall /\ DeleteIndexed(l)

SpecBatch == Init /\ [][NextBatch]_vars

DrawCall == nops < MaxDrawOps /\ nops' = nops + 1 /\ UNCHANGED docvars

\* Two plain domains that are drawn, whole and list by list, on platforms
\* with and without glMultiDrawArrays.
NextDraw ==
    \/ \E l \in Lists, d \in PlainDomains, c \in Counts : DrawCall /\ Create(l, d, c)
    \/ \E l \in Lists, c \in Counts : DrawCall /\ Resize(l, c)
    \/ \E l \in Lists : DrawCall /\ Delete(l)
    \/ \E d \in PlainDomains, l \in Lists \cup {None}, have_multi \in BOOLEAN :
           DrawCall /\ DrawDomain(d, l, have_multi)

SpecDraw == Init /\ [][NextDraw]_vars

\* The <<batch, mode, group>> of the calls that build the trees of groups:
\* a nested group before and after its parent, a group equal to the parent,
\* a nested TextureGroup, no group, the other batch.
TreeCalls ==
    { <<1, "GL_TRIANGLES", 3>>,
      <<1, "GL_TRIANGLES", 1>>,
      <<1, "GL_TRIANGLES", 4>>,
      <<1, "GL_TRIANGLES", 7>>,
      <<1, "GL_TRIANGLES", None>>,
      <<2, "GL_TRIANGLES", 3>> }

\* Lists are added to the batches, indexed or not, and migrated.
NextTree ==
    \/ \E l \in Lists, c \in TreeCalls :
           BatchCall /\ BatchAdd(c[1], l, 3, c[2], c[3], PlainData)
    \/ \E l \in Lists, c \in TreeCalls :
           BatchCall /\ BatchAddIndexed(c[1], l, 3, c[2], c[3], 3, PlainData)
    \/ \E l \in Lists, c \in TreeCalls :
           BatchCall /\ BatchMigrate(l, c[2], c[3], c[1])

SpecTree == Init /\ [][NextTree]_vars

\* The <<batch, mode, group, data>> Batch.add is called with where the
\* lists are then written, resized and deleted.
DataAddCalls ==
    { <<1, "GL_TRIANGLES", None, TexturedData>>,
      <<1, "GL_TRIANGLES", 3, PlainData>>,
      <<2, "GL_TRIANGLES", 2, PlainData>> }

\* Lists are added to two batches, written, resized and deleted, and the
\* batches are drawn.
NextBatchData ==
    \/ \E l \in Lists, c \in DataAddCalls :
           BatchCall /\ BatchAdd(c[1], l, 3, c[2], c[3], c[4])
    \/ \E l \in Lists : BatchCall /\ SetData(l)
    \/ \E l \in Lists, c \in Counts : BatchCall /\ Resize(l, c)
    \/ \E l \in Lists : BatchCall /\ Delete(l)
    \/ \E b \in Batches : BatchCall /\ Draw(b)

SpecBatchData == Init /\ [][NextBatchData]_vars

\* Plain and indexed lists are created, written and deleted.
NextDelete ==
    \/ \E l \in Lists, d \in PlainDomains, c \in Counts : Call /\ Create(l, d, c)
    \/ \E l \in Lists, s \in IndexedShapes : Call /\ AddIndexed(l, s[1], s[2])
    \/ \E l \in Lists : Call /\ SetData(l)
    \/ \E l \in Lists : Call /\ Delete(l)
    \/ \E l \in Lists : Call /\ DeleteIndexed(l)

SpecDelete == Init /\ [][NextDelete]_vars

\* The calls on the domains and of _nearest_pow2 in a run about capacities.
MaxGrowthOps == 3

\* The values _nearest_pow2 is called with: the small ones, and powers of
\* two up to 2^32 with the values next to them.
RequestedCapacities ==
    {FromInt(v) : v \in 1 .. 33}
    \cup {PowBits(k) : k \in {8, 15, 16, 17, 24, 30, 31, 32}}
    \cup {IncBits(PowBits(k)) : k \in {8, 15, 16, 17, 24, 30, 31}}
    \cup {DecBits(PowBits(k)) : k \in {8, 15, 16, 17, 24, 30, 31, 32}}

GrowthCall == nops < MaxGrowthOps /\ nops' = nops + 1 /\ UNCHANGED docvars

\* Lists are created in the first domain, resized and deleted, which grows
\* the domain, and _nearest_pow2 is called.
NextGrowth ==
    \/ \E l \in Lists, c \in Counts : GrowthCall /\ Create(l, 1, c)
    \/ \E l \in Lists, c \in Counts : GrowthCall /\ Resize(l, c)
    \/ \E l \in Lists : GrowthCall /\ Delete(l)
    \/ \E v \in RequestedCapacities : GrowthCall /\ NearestPow2(v)

SpecGrowth == Init /\ [][NextGrowth]_vars

\* Indexed lists are created and deleted, and the indexed domain is drawn,
\* whole and list by list.
NextIndexedDraw ==
    \/ \E l \in Lists, s \in IndexedShapes : DrawCall /\ AddIndexed(l, s[1], s[2])
    \/ \E l \in Lists : DrawCall /\ DeleteIndexed(l)
    \/ \E l \in Lists \cup {None}, have_multi \in BOOLEAN :
           DrawCall /\ DrawIndexedDomain(IndexedDomain, l, have_multi)

SpecIndexedDraw == Init /\ [][NextIndexedDraw]_vars

\* The <<batch, mode, group, data>> of an application that draws textured
\* and layered geometry from one batch: no group, an OrderedGroup, and the
\* three TextureGroups, one of them in a second mode.
GroupCalls ==
    { <<1, "GL_TRIANGLES", None, PlainData>>,
      <<1, "GL_TRIANGLES", 2, PlainData>>,
      <<1, "GL_TRIANGLES", 5, PlainData>>,
      <<1, "GL_LINES", 5, PlainData>>,
      <<1, "GL_TRIANGLES", 6, PlainData>>,
      <<1, "GL_TRIANGLES", 7, PlainData>> }

\* One batch with groups of every class, the TextureGroups anywhere in
\* memory.
NextGroups ==
    \/ \E l \in Lists, c \in GroupCalls :
           BatchCall /\ BatchAdd(c[1], l, 3, c[2], c[3], c[4])
    \/ \E l \in Lists, c \in GroupCalls :
           BatchCall /\ BatchAddIndexed(c[1], l, 3, c[2], c[3], 3, c[4])
    \/ BatchCall /\ Draw(1)
    \/ \E l \in Lists : BatchCall /\ Delete(l)
    \/ \E l \in Lists : BatchCall /\ DeleteIndexed(l)

SpecGroups == InitGroups /\ [][NextGroups]_vars

\* The texts the application inserts.
Texts == {<<"a">>, <<"\n">>, <<"a", PS>>}

\* The style dictionaries the application passes; the empty one stands for
\* attributes=None, which the code treats alike.
NoAttributes == <<>>

\* bold is True or False, which are the integers 1 and 0.
CharacterStyles == {[a \in {"bold"} |-> 1], [a \in {"bold"} |-> 0]}

ParagraphStyles == {[a \in {"indent"} |-> 8]}

\* One more call on the document.
DocCall == nops < MaxDocOps /\ nops' = nops + 1 /\ UNCHANGED <<graphicsvars, before>>

\* The positions of the document's text, its end included.
Positions == 0 .. Len(document.text)

NextDoc ==
    \/ \E start \in Positions, text \in Texts,
          attrs \in {NoAttributes} \cup CharacterStyles :
           /\ Len(document.text) + Len(text) <= MaxText
           /\ DocCall /\ InsertText(start, text, attrs)
    \/ \E start \in Positions, end \in Positions :
           start <= end /\ DocCall /\ DeleteText(start, end)
    \/ \E start \in Positions, end \in Positions, attrs \in CharacterStyles :
           start <= end /\ DocCall /\ SetStyle(start, end, attrs)
    \/ \E start \in Positions, end \in Positions, attrs \in ParagraphStyles :
           start <= end /\ DocCall /\ SetParagraphStyle(start, end, attrs)
    \/ \E position \in Positions, element \in Elements :
           /\ Len(document.text) < MaxText
           /\ DocCall /\ InsertElement(position, element, NoAttributes)

\* A formatted or an unformatted document.
InitDoc ==
    /\ InitObjects
    /\ address = [g \in TextureGroups |-> g - 4]
    /\ \E class \in DocumentClasses : InitDocument(class)

SpecDoc == InitDoc /\ [][NextDoc]_vars

\* A document whose characters are styled and whose styles are read.
NextStyle ==
    \/ \E start \in Positions, text \in Texts, attrs \in {NoAttributes, [a \in {"bold"} |-> 1]} :
           /\ Len(document.text) + Len(text) <= MaxText
           /\ DocCall /\ InsertText(start, text, attrs)
    \/ \E start \in Positions, end \in Positions, attrs \in CharacterStyles :
           start < end /\ DocCall /\ SetStyle(start, end, attrs)
    \/ \E start \in Positions, end \in Positions, attribute \in Attributes :
           start < end /\ DocCall /\ GetStyleRange(attribute, start, end)

SpecStyle == InitDoc /\ [][NextStyle]_vars

\* The positions an application can pass, those just outside the text
\* included.
AnyPositions == -1 .. Len(document.text) + 1

\* An UnformattedDocument called with positions inside and outside its text;
\* elements are not placed at -1, the number that stands for None.
NextRange ==
    \/ \E start \in AnyPositions, text \in Texts :
           /\ Len(document.text) + Len(text) <= MaxText
           /\ DocCall /\ InsertText(start, text, NoAttributes)
    \/ \E start \in AnyPositions, end \in AnyPositions :
           DocCall /\ DeleteText(start, end)
    \/ \E start \in AnyPositions, end \in AnyPositions, attrs \in CharacterStyles :
           DocCall /\ SetStyle(start, end, attrs)
    \/ \E start \in AnyPositions, end \in AnyPositions, attrs \in ParagraphStyles :
           DocCall /\ SetParagraphStyle(start, end, attrs)
    \/ \E position \in AnyPositions \ {None}, element \in Elements :
           /\ Len(document.text) < MaxText
           /\ DocCall /\ InsertElement(position, element, NoAttributes)

InitRange ==
    /\ InitObjects
    /\ address = [g \in TextureGroups |-> g - 4]
    /\ InitDocument("UnformattedDocument")

SpecRange == InitRange /\ [][NextRange]_vars

\* The format strings of one attribute: without a usage and with each of
\* the three usages.
FormatsOf(attribute) ==
    {[attribute |-> attribute, usage |-> u] : u \in {"", "static", "dynamic", "stream"}}

\* The format lists a domain is created from: one to three formats of
\* different attributes, in any order.
FormatLists ==
    {f \in UNION {[1 .. n -> UNION {FormatsOf(a) : a \in {"v3f", "t2f", "c4B"}}] : n \in 1 .. 3} :
        \A i, j \in DOMAIN f : i # j => f[i].attribute # f[j].attribute}

\* The application's objects, the first domain created from any format list.
InitLayout ==
    /\ \E formats \in FormatLists :
           domain_formats = [d \in InitialDomains |->
                                IF d = 1 THEN formats ELSE InitialFormats(d)]
    /\ domain_indexed = [d \in InitialDomains |-> d = IndexedDomain]
    /\ batch_formats = [d \in InitialDomains |-> <<>>]
    /\ capacity = [d \in InitialDomains |-> NewDomain(domain_formats[d]).capacity]
    /\ regions = [d \in InitialDomains |-> NewDomain(domain_formats[d]).regions]
    /\ version = [d \in InitialDomains |-> NewDomain(domain_formats[d]).version]
    /\ bufsize = [d \in InitialDomains |-> NewDomain(domain_formats[d]).bufsize]
    /\ data = [d \in InitialDomains |-> NewDomain(domain_formats[d]).data]
    /\ index_capacity = [d \in InitialDomains |-> NewDomain(domain_formats[d]).index_capacity]
    /\ index_regions = [d \in InitialDomains |-> NewDomain(domain_formats[d]).index_regions]
    /\ index_bufsize = [d \in InitialDomains |-> NewDomain(domain_formats[d]).index_bufsize]
    /\ index_data = [d \in InitialDomains |-> NewDomain(domain_formats[d]).index_data]
    /\ vlist = [l \in Lists |-> NoList]
    /\ lastOp = NoOp
    /\ nops = 0
    /\ InitBatches
    /\ address = [g \in TextureGroups |-> g - 4]
    /\ InitDocument("FormattedDocument")

LayoutCall == nops < MaxLayoutOps /\ nops' = nops + 1 /\ UNCHANGED docvars

\* Lists are created in the first domain and in the second, whose
\* attributes are v3f and t2f, migrated from one to the other and deleted.
NextLayout ==
    \/ \E l \in Lists, d \in PlainDomains, c \in Counts : LayoutCall /\ Create(l, d, c)
    \/ \E l \in Lists, d \in PlainDomains : LayoutCall /\ Migrate(l, d)
    \/ \E l \in Lists : LayoutCall /\ Delete(l)

SpecLayout == InitLayout /\ [][NextLayout]_vars

\* The format lists create_domain is called with: one or two formats of
\* vertices and tex_coords, two of one attribute among them.
NameFormatLists ==
    UNION {[1 .. n -> [attribute : {"v3f", "t2f"}, usage : {"", "static"}]] : n \in 1 .. 2}

\* Domains are created, and lists are created in them and written.
NextNames ==
    \/ \E formats \in NameFormatLists : LayoutCall /\ CreateDomain(formats)
    \/ \E l \in Lists, d \in Domains \ {IndexedDomain}, c \in Counts :
           LayoutCall /\ Create(l, d, c)
    \/ \E l \in Lists : LayoutCall /\ SetData(l)

SpecNames == Init /\ [][NextNames]_vars

\* One more call on the document, with the history kept.
TripCall ==
    /\ nops < MaxTripOps
    /\ nops' = nops + 1
    /\ before' = History
    /\ UNCHANGED graphicsvars

\* A FormattedDocument on which text is inserted, styled and deleted.
NextTrip ==
    \/ \E start \in Positions, text \in Texts, attrs \in {NoAttributes, [a \in {"bold"} |-> 1]} :
           /\ Len(document.text) + Len(text) <= MaxText
           /\ TripCall /\ InsertText(start, text, attrs)
    \/ \E start \in Positions, end \in Positions :
           start < end /\ TripCall /\ DeleteText(start, end)
    \/ \E start \in Positions, end \in Positions, attrs \in CharacterStyles :
           start < end /\ TripCall /\ SetStyle(start, end, attrs)

InitTrip ==
    /\ InitObjects
    /\ address = [g \in TextureGroups |-> g - 4]
    /\ InitDocument("FormattedDocument")

SpecTrip == InitTrip /\ [][NextTrip]_vars

(* -------------------------------- claims -------------------------------- *)

\* The vertices [start, start + count) of list l.
Range(l) == vlist[l].start .. (vlist[l].start + vlist[l].count - 1)

\* The last step was a call of operation `op` that returned normally.
Returned(op) == lastOp.op = op /\ lastOp.raised = "none"

\* C1: after any sequence of create, resize, migrate and delete, the ranges
\* of the live vertex lists of a domain are pairwise disjoint and every live
\* list ends at or below its domain's allocator capacity.
C1_LiveRangesDisjoint ==
    \A l \in Lists :
        IsLive(l) =>
            /\ 0 <= vlist[l].start
            /\ vlist[l].start + vlist[l].count <= capacity[vlist[l].domain]
            /\ \A k \in Lists \ {l} :
                   IsLive(k) /\ vlist[k].domain = vlist[l].domain
                       => Range(l) \cap Range(k) = {}

\* C1 witness: two live lists share a domain that has grown, and the last
\* call moved one of them.
C1_Witness ==
    /\ lastOp.op \in {"resize", "migrate"}
    /\ lastOp.raised = "none"
    /\ lastOp.moved
    /\ \E l, k \in Lists :
           /\ l # k /\ IsLive(l) /\ IsLive(k)
           /\ vlist[l].domain = vlist[k].domain
           /\ version[vlist[l].domain] > 0

\* The values of every attribute over the first `count` vertices of list l
\* are, after the step, at the list's new place what they were at its old.
DataCarriedOver(l, count) ==
    \A n \in attribute_names(vlist[l].domain) :
        \A k \in 0 .. count - 1 :
            data'[vlist'[l].domain][n][vlist'[l].start + k]
                = data[vlist[l].domain][n][vlist[l].start + k]

\* The step is a resize of list l that changed the list's start.
ResizeMoved(l) ==
    /\ nops' # nops
    /\ lastOp'.op = "resize" /\ lastOp'.list = l /\ lastOp'.raised = "none"
    /\ vlist'[l].start # vlist[l].start

\* C3 as stated: every resize that changes the list's start keeps the
\* attribute values of the list's first `count` vertices at the new start
\* and leaves the domain's version strictly greater than before.
C3_MoveBumpsVersion ==
    [][\A l \in Lists :
          ResizeMoved(l) =>
              /\ DataCarriedOver(l, vlist[l].count)
              /\ version'[vlist[l].domain] > version[vlist[l].domain]]_vars

\* C3 as amended: every resize that changes the list's start keeps the
\* attribute values of the list's first `count` vertices at the new start;
\* the domain's version is strictly greater afterwards exactly when the
\* resize grew the allocator's capacity, and is unchanged otherwise.
C3_MoveKeepsData ==
    [][\A l \in Lists :
          ResizeMoved(l) =>
              LET d == vlist[l].domain IN
              /\ DataCarriedOver(l, vlist[l].count)
              /\ version'[d] >= version[d]
              /\ (version'[d] > version[d]) <=> (capacity'[d] > capacity[d])]_vars

\* C3 witness: the last call was a resize that moved a list holding written
\* data to a new start, within the capacity the domain had.
C3_Witness ==
    /\ Returned("resize") /\ lastOp.moved /\ ~lastOp.grew
    /\ vlist[lastOp.list].start > 0
    /\ LET v == vlist[lastOp.list]
       IN data[v.domain]["vertices"][v.start] = Val(lastOp.list, "vertices", 0)

\* The capacity the first alloc or realloc of a create or resize of list l
\* asks for in the step, 0 when it does not raise.
RequestedInStep(l) ==
    LET d == vlist'[l].domain IN
    IF lastOp'.op = "create"
    THEN AllocatorAlloc(regions[d], capacity[d], vlist'[l].count).requested_capacity
    ELSE AllocatorRealloc(regions[d], capacity[d], vlist[l].start, vlist[l].count,
                          vlist'[l].count).requested_capacity

\* C5: create and resize never surface the allocator's capacity-exceeded
\* condition; when the first alloc or realloc raises it, the domain grows to
\* a capacity of at least the requested minimum, with every buffer, and the
\* retry succeeds.
C5_CapacityNeverSurfaced ==
    [][\A l \in Lists :
          (nops' # nops /\ lastOp'.op \in {"create", "resize"} /\ lastOp'.list = l) =>
              /\ lastOp'.raised = "none"
              /\ IsLive(l)'
              /\ LET d == vlist'[l].domain IN
                 lastOp'.grew =>
                     /\ capacity'[d] >= RequestedInStep(l)
                     /\ RequestedInStep(l) > capacity[d]
                     /\ \A n \in attribute_names(d) : DOMAIN data'[d][n] = 0 .. capacity'[d] - 1
                     /\ vlist'[l].start + vlist'[l].count <= capacity'[d]]_vars

\* C5 witness: the last call was a create or a resize that had to grow the
\* domain.
C5_Witness ==
    /\ lastOp.op \in {"create", "resize"}
    /\ lastOp.raised = "none"
    /\ lastOp.grew
    /\ capacity[vlist[lastOp.list].domain] > _initial_count

\* C6: migrating a vertex list never surfaces the allocator's
\* capacity-exceeded condition, whatever the occupancy of the target domain.
C6_MigrateNeverRaisesCapacity ==
    ~(lastOp.op = "migrate" /\ lastOp.raised = "AllocatorMemoryException")

\* The step is a migrate of list l that returned normally.
Migrated(l) ==
    /\ nops' # nops
    /\ lastOp'.op = "migrate" /\ lastOp'.list = l /\ lastOp'.raised = "none"

\* C7: after a migrate between domains with matching attribute names the
\* list's domain is the target, its count is unchanged, every attribute's
\* values over the list are what they were, the old region is no longer
\* allocated in the source domain and exactly one region of `count` vertices
\* was added to the target domain's allocated regions.
C7_MigrateMovesList ==
    [][\A l \in Lists :
          Migrated(l) =>
              LET v == vlist[l]
                  w == vlist'[l]
              IN /\ w.domain = lastOp'.arg
                 /\ w.count = v.count
                 /\ w.state = "live"
                 /\ DataCarriedOver(l, v.count)
                 /\ <<v.start, v.count>> \notin regions'[v.domain]
                 /\ <<w.start, w.count>> \notin regions[w.domain]
                 /\ regions'[w.domain] \ regions[w.domain] = {<<w.start, w.count>>}
                 /\ regions[w.domain] \ regions'[w.domain] =
                        (IF w.domain = v.domain THEN {<<v.start, v.count>>} ELSE {})
                 /\ (w.domain # v.domain =>
                        regions'[v.domain] = regions[v.domain] \ {<<v.start, v.count>>})]_vars

\* C7 witness: the last call migrated a list holding written data into
\* another domain that holds a second list.
C7_Witness ==
    /\ Returned("migrate")
    /\ LET l == lastOp.list
           v == vlist[l]
       IN /\ v.domain = lastOp.arg
          /\ v.start > 0
          /\ data[v.domain]["vertices"][v.start] = Val(l, "vertices", 0)
          /\ data[v.domain]["tex_coords"][v.start + v.count - 1]
                 = Val(l, "tex_coords", v.count - 1)
          /\ \E k \in Lists \ {l} : IsLive(k) /\ vlist[k].domain = v.domain

\* C2: reading any named attribute of a live vertex list returns a region
\* over the list's current domain, current start and current count.
C2_ReadsCurrentRegion ==
    \A l \in Lists :
        IsLive(l) =>
            \A n \in attribute_names(vlist[l].domain) :
                ReadRegion(l, n) = Region(vlist[l].domain, vlist[l].start, vlist[l].count)

\* C4: every attribute buffer of a domain has capacity * element_size bytes
\* and the index buffer of an indexed domain has index capacity *
\* index_element_size bytes, at construction and after every growth.
C4_BufferSizes ==
    \A d \in Domains :
        /\ \A i \in 1 .. Len(buffer_attributes(d)) :
               bufsize[d][i] = capacity[d] * buffer_attributes(d)[i].element_size
        /\ \A n \in attribute_names(d) : DOMAIN data[d][n] = 0 .. capacity[d] - 1
        /\ domain_indexed[d] =>
               /\ index_bufsize[d] = index_capacity[d] * index_element_size
               /\ DOMAIN index_data[d] = 0 .. index_capacity[d] - 1

\* C4 witness: the indexed domain's vertex buffers and its index buffer have
\* both grown, the last time in a resize.
C4_Witness ==
    /\ Returned("resize") /\ lastOp.grew
    /\ capacity[IndexedDomain] > _initial_count
    /\ index_capacity[IndexedDomain] > _initial_index_count
    /\ Len(buffer_attributes(IndexedDomain)) = 2

\* C8: IndexedVertexDomain.create is atomic: when the index allocation fails
\* after the vertex allocation succeeded, the vertex allocator's allocated
\* regions are those before the call.
C8_CreateIsAtomic ==
    [][(nops' # nops /\ lastOp'.op = "add_indexed" /\ lastOp'.raised # "none") =>
          regions'[IndexedDomain] = regions[IndexedDomain]]_vars

\* C9: the stored indices of every indexed list created by add_indexed from
\* list-relative indices I are I biased by the list's start, for every index
\* that all resizes so far retained.
C9_IndicesBiasedByStart ==
    \A l \in Lists :
        (IsLive(l) /\ domain_indexed[vlist[l].domain]) =>
            \A k \in 0 .. vlist[l].retained - 1 :
                index_data[vlist[l].domain][vlist[l].index_start + k] - vlist[l].start = I(k)

\* The step is an add or add_indexed on batch b.
AddedTo(b) ==
    /\ nops' = nops + 1
    /\ lastOp'.op \in {"add", "add_indexed"}
    /\ lastOp'.arg.batch = b

\* Batch b has the group, and the group has a domain for the key.
KnownKey(b, group, key) ==
    /\ HasKey(DOMAIN group_map[b], group)
    /\ key \in DOMAIN group_map[b][Key(DOMAIN group_map[b], group)]

\* C10: an add or add_indexed on a Clean batch leaves it Clean when the
\* domain of its (group, formats, mode, indexed) key exists already, and
\* makes it Dirty when the group is not in the batch or the key has no
\* domain.
C10_AddDirtiesOnNewKey ==
    [][\A b \in Batches :
          (AddedTo(b) /\ ~draw_list_dirty[b]) =>
              (draw_list_dirty'[b] <=> ~KnownKey(b, lastOp'.arg.group, lastOp'.arg.key))]_vars

\* The last step was Batch.draw of batch b.
Drew(b) == lastOp.op = "draw" /\ lastOp.arg.batch = b

\* C11: the draw list of a batch changes only in a Batch.draw that found the
\* batch Dirty and rebuilt the list (so never in add, add_indexed or
\* migrate), a Batch.draw of a Clean batch does not rebuild and leaves the
\* cached list as it is, and after every Batch.draw the batch is Clean.
C11_RebuildOnlyInDirtyDraw ==
    [][\A b \in Batches :
          /\ draw_list'[b] # draw_list[b] =>
                 Drew(b)' /\ lastOp'.arg.rebuilt /\ draw_list_dirty[b]
          /\ Drew(b)' =>
                 /\ ~draw_list_dirty'[b]
                 /\ lastOp'.arg.rebuilt <=> draw_list_dirty[b]
                 /\ ~draw_list_dirty[b] => draw_list'[b] = draw_list[b]]_vars

\* C11 witness: a draw of a Clean batch with a draw list to execute, and no
\* rebuild.
C11_Witness ==
    /\ lastOp.op = "draw"
    /\ ~lastOp.arg.rebuilt
    /\ draw_list[lastOp.arg.batch] # <<>>
    /\ ~draw_list_dirty[lastOp.arg.batch]

\* C12: whenever a batch is Clean, its cached draw list is the list a fresh
\* _update_draw_list over its group_map, group_children and top_groups
\* builds, after any interleaving of add, add_indexed, migrate, draw and
\* draw_subset.
C12_CleanListIsFresh ==
    \A b \in Batches :
        ~draw_list_dirty[b] => draw_list[b] = _update_draw_list(BatchState(b)).draw_list

\* C12 witness: a Clean batch with a nested group in its draw list, after an
\* add, add_indexed or migrate that found its domain there, or a draw_subset.
C12_Witness ==
    \E b \in Batches :
        /\ ~draw_list_dirty[b]
        /\ Len(draw_list[b]) >= 5
        /\ \/ lastOp.op \in {"add", "add_indexed"} /\ lastOp.arg.batch = b
           \/ lastOp.op = "batch_migrate" /\ lastOp.raised = "none"
              /\ \E gk \in DOMAIN group_map[b] : \E k \in DOMAIN group_map[b][gk] :
                     group_map[b][gk][k] = lastOp.arg

\* The positions of the draw list of batch b that call group g's set_state,
\* its unset_state, and the draw of domain d.
SetAt(b, g) ==
    {i \in DOMAIN draw_list[b] : draw_list[b][i].op = "set_state" /\ draw_list[b][i].group = g}

UnsetAt(b, g) ==
    {i \in DOMAIN draw_list[b] : draw_list[b][i].op = "unset_state" /\ draw_list[b][i].group = g}

DrawAt(b, d) ==
    {i \in DOMAIN draw_list[b] : draw_list[b][i].op = "draw" /\ draw_list[b][i].domain = d}

\* The groups of batch b that group g descends from: the keys of group_map
\* its chain of parents resolves to.
RECURSIVE Ancestors(_, _)
Ancestors(b, g) ==
    IF GroupParent(g) = None \/ ~HasKey(DOMAIN group_map[b], GroupParent(g)) THEN {}
    ELSE {Key(DOMAIN group_map[b], GroupParent(g))}
         \cup Ancestors(b, Key(DOMAIN group_map[b], GroupParent(g)))

\* The only element of a one-element set.
The(S) == CHOOSE x \in S : TRUE

\* C13: in the operations Batch.draw executes, every group of the batch has
\* its set_state exactly once and its unset_state exactly once after it,
\* every domain of the group is drawn exactly once and between the two, and
\* a group with a parent has its parent in the batch, with the group's
\* set_state after and its unset_state before those of each of its ancestors
\* (so all operations of a descendant are inside the ancestor's pair).
C13_DrawListWellNested ==
    \A b \in Batches :
        Drew(b) =>
            \A g \in DOMAIN group_map[b] :
                /\ Cardinality(SetAt(b, g)) = 1
                /\ Cardinality(UnsetAt(b, g)) = 1
                /\ The(SetAt(b, g)) < The(UnsetAt(b, g))
                /\ \A k \in DOMAIN group_map[b][g] :
                       /\ Cardinality(DrawAt(b, group_map[b][g][k])) = 1
                       /\ The(SetAt(b, g)) < The(DrawAt(b, group_map[b][g][k]))
                       /\ The(DrawAt(b, group_map[b][g][k])) < The(UnsetAt(b, g))
                /\ GroupParent(g) # None => Ancestors(b, g) # {}
                /\ \A a \in Ancestors(b, g) :
                       /\ The(SetAt(b, a)) < The(SetAt(b, g))
                       /\ The(UnsetAt(b, g)) < The(UnsetAt(b, a))

\* C13 witness: a draw of a batch with a group nested in another, both with
\* a domain to draw, and a second top-level group.
C13_Witness ==
    \E b \in Batches :
        /\ Drew(b)
        /\ \E g \in DOMAIN group_map[b] :
               /\ Ancestors(b, g) # {}
               /\ DOMAIN group_map[b][g] # {}
               /\ \E a \in Ancestors(b, g) : DOMAIN group_map[b][a] # {}
        /\ Len(top_groups[b]) >= 2

\* Groups x and y of batch b are siblings: both top-level, or both with a
\* parent that the batch resolves to one group.
Siblings(b, x, y) ==
    /\ x # y
    /\ \/ GroupParent(x) = None /\ GroupParent(y) = None
       \/ /\ GroupParent(x) # None
          /\ GroupParent(y) # None
          /\ Ancestors(b, x) # {}
          /\ Key(DOMAIN group_map[b], GroupParent(x)) = Key(DOMAIN group_map[b], GroupParent(y))

\* When group g, added by an add or add_indexed that named it, came to batch
\* b: the call that registers the group creates the group's first domain, and
\* domains are numbered as they are created.
FirstAdded(b, g) == Min({group_map[b][g][k] : k \in DOMAIN group_map[b][g]})

\* C14: in the operations Batch.draw executes, of two sibling OrderedGroups
\* the one with the smaller order has its set_state first, and of two sibling
\* groups without an order the one added to the batch first has its
\* set_state first.
C14_SiblingOrder ==
    \A b \in Batches :
        Drew(b) =>
            \A x, y \in DOMAIN group_map[b] :
                Siblings(b, x, y) =>
                    /\ (/\ GroupClass(x) = "OrderedGroup"
                        /\ GroupClass(y) = "OrderedGroup"
                        /\ GroupOrder(x) < GroupOrder(y))
                           => The(SetAt(b, x)) < The(SetAt(b, y))
                    /\ (/\ GroupClass(x) # "OrderedGroup"
                        /\ GroupClass(y) # "OrderedGroup"
                        /\ group_map[b][x] # <<>>
                        /\ group_map[b][y] # <<>>
                        /\ FirstAdded(b, x) < FirstAdded(b, y))
                           => The(SetAt(b, x)) < The(SetAt(b, y))

\* The attribute name of the i-th format of an add.
FormatName(formats, i) == create_attribute(formats[i].attribute).plural

\* What the buffer of attribute `name` of domain d held at slot k before the
\* step; a domain created by the step had nothing written.
Before(d, name, k) ==
    IF d \in Domains /\ k \in DOMAIN data[d][name] THEN data[d][name][k] ELSE Unwritten

\* C15: after a Batch.add that returned list l, for every data item i the
\* region of l in the buffer of the attribute of the i-th format holds the
\* array given with the item, when one was given, and what it held before,
\* when none was given.
C15_ArrayGoesToItsAttribute ==
    [][(lastOp'.op = "add" /\ lastOp'.raised = "none") =>
          \A i \in DOMAIN lastOp'.arg.key.formats :
              \A k \in 0 .. vlist'[lastOp'.list].count - 1 :
                  data'[lastOp'.arg.domain][FormatName(lastOp'.arg.key.formats, i)]
                       [lastOp'.arg.start + k]
                  = IF \E j \in DOMAIN lastOp'.arg.arrays : lastOp'.arg.arrays[j] = i
                    THEN Val(lastOp'.list, FormatName(lastOp'.arg.key.formats, i), k)
                    ELSE Before(lastOp'.arg.domain, FormatName(lastOp'.arg.key.formats, i),
                                lastOp'.arg.start + k)]_vars

\* C16: an add or add_indexed resolves to the domain of an earlier call on
\* the same batch exactly when its group equals (==) the group the domain is
\* registered under and its (formats, mode, indexed) key equals the domain's
\* key; and it creates a domain exactly when no registered domain of the
\* batch has an equal group and an equal key.
C16_SameDomainIffSameKey ==
    [][\A b \in Batches :
          AddedTo(b) =>
              /\ \A gk \in DOMAIN group_map[b] :
                     \A k \in DOMAIN group_map[b][gk] :
                         (lastOp'.arg.domain = group_map[b][gk][k])
                             <=> (GroupEq(lastOp'.arg.group, gk) /\ lastOp'.arg.key = k)
              /\ (lastOp'.arg.domain \notin Domains)
                     <=> ~\E gk \in DOMAIN group_map[b] :
                             \E k \in DOMAIN group_map[b][gk] :
                                 GroupEq(lastOp'.arg.group, gk) /\ lastOp'.arg.key = k]_vars

\* The (start, size) pairs a sequence of GL calls submits, in order.
RECURSIVE Submitted(_)
Submitted(calls) ==
    IF calls = <<>> THEN <<>> ELSE Head(calls).pairs \o Submitted(Tail(calls))

\* C17: domain.draw(mode) submits every allocated region of the domain once
\* and nothing else, on the multi-draw path and on the per-region path: no
\* call without regions, one glDrawArrays for one region; and
\* domain.draw(mode, list) makes one glDrawArrays call over (list.start,
\* list.count).
C17_DrawSubmitsRegions ==
    lastOp.op = "domain_draw" =>
        IF lastOp.list # None
        THEN lastOp.arg.calls =
                 <<GLCall("glDrawArrays",
                          <<<<vlist[lastOp.list].start, vlist[lastOp.list].count>>>>)>>
        ELSE /\ Len(Submitted(lastOp.arg.calls)) = Cardinality(regions[lastOp.arg.domain])
             /\ {Submitted(lastOp.arg.calls)[i] : i \in DOMAIN Submitted(lastOp.arg.calls)}
                    = regions[lastOp.arg.domain]
             /\ regions[lastOp.arg.domain] = {} => lastOp.arg.calls = <<>>
             /\ Cardinality(regions[lastOp.arg.domain]) = 1 =>
                    /\ Len(lastOp.arg.calls) = 1
                    /\ lastOp.arg.calls[1].function = "glDrawArrays"
             /\ Cardinality(regions[lastOp.arg.domain]) > 1 =>
                    IF lastOp.arg.have_multi
                    THEN /\ Len(lastOp.arg.calls) = 1
                         /\ lastOp.arg.calls[1].function = "glMultiDrawArrays"
                    ELSE /\ Len(lastOp.arg.calls) = Cardinality(regions[lastOp.arg.domain])
                         /\ \A i \in DOMAIN lastOp.arg.calls :
                                lastOp.arg.calls[i].function = "glDrawArrays"

\* C17 witness: a domain with two regions drawn by the per-region loop.
C17_Witness ==
    /\ lastOp.op = "domain_draw"
    /\ lastOp.list = None
    /\ ~lastOp.arg.have_multi
    /\ Cardinality(regions[lastOp.arg.domain]) = 2

\* The number of resizes of domain d's buffers in the step: one of all the
\* attribute buffers together, one of the index buffer.
BufferResizes(d) ==
    (IF bufsize'[d] # bufsize[d] THEN 1 ELSE 0)
    + (IF index_bufsize'[d] # index_bufsize[d] THEN 1 ELSE 0)

\* C18: no operation decreases a domain's version, and an operation that
\* resizes the domain's attribute buffers or its index buffer increases the
\* version, by one for each of the two resizes it makes.
C18_VersionCountsResizes ==
    [][\A d \in Domains :
          /\ version'[d] >= version[d]
          /\ version'[d] >= version[d] + BufferResizes(d)]_vars

\* C18 witness: the indexed domain's version after a resize of its attribute
\* buffers and a resize of its index buffer, the last operation having
\* resized a buffer.
C18_Witness ==
    /\ lastOp.grew
    /\ version[IndexedDomain] >= 2
    /\ bufsize[IndexedDomain] # NewDomain(InitialFormats(IndexedDomain)).bufsize
    /\ index_bufsize[IndexedDomain] # NewDomain(InitialFormats(IndexedDomain)).index_bufsize

\* The allocator's regions of list l's domain at the moment of the copy loop
\* of l.resize(count): those _safe_realloc leaves when it returns.
RegionsAtCopy(l, count) ==
    _safe_realloc(DomState(vlist[l].domain), vlist[l].start, vlist[l].count, count).st.regions

\* Slot k is in one of the allocated regions.
Allocated(regs, k) == \E r \in regs : r[1] <= k /\ k < r[1] + r[2]

\* C19: when a resize moves the list, the list's old region is still
\* allocated at the moment its data is copied to the new place.
C19_OldRegionHeldDuringCopy ==
    [][\A l \in Lists :
          ResizeMoved(l) =>
              \A k \in Range(l) : Allocated(RegionsAtCopy(l, vlist'[l].count), k)]_vars

\* The notification each mutator of a document dispatches.
Mutators == {"insert_text", "delete_text", "set_style", "set_paragraph_style"}

NotificationOf(op) ==
    IF op = "insert_text" THEN "on_insert_text"
    ELSE IF op = "delete_text" THEN "on_delete_text"
    ELSE "on_style_text"

\* The value of attribute a at character i (from 0) of a document.
StyleAt(doc, a, i) ==
    IF doc.class = "UnformattedDocument" THEN doc.styles[a]
    ELSE Expand(doc.style_runs[a])[i + 1]

ElementPosition(i) == _position[document.elements[i]]

\* C21: the element list of the document is sorted by position, no two of
\* its elements share a position, and every element's position is inside
\* the text, at a '\0'.
C21_ElementsAtPlaceholders ==
    /\ \A i, j \in DOMAIN document.elements :
          i < j => ElementPosition(i) < ElementPosition(j)
    /\ \A i \in DOMAIN document.elements :
          /\ 0 <= ElementPosition(i)
          /\ ElementPosition(i) < Len(document.text)
          /\ document.text[ElementPosition(i) + 1] = NUL

\* insert_text(p, text) followed by delete_text(p, p + len(text)) on the
\* document and positions s.
RoundTrip(s, p, text) ==
    delete_text(insert_text(s, <<>>, p, text, NoAttributes).seen, <<>>, p, p + Len(text)).seen

\* The last two calls were insert_text(p, s) without attributes and
\* delete_text(p, p + len(s)), on a FormattedDocument.
RoundTripDone ==
    /\ document.class = "FormattedDocument"
    /\ lastOp.op = "delete_text"
    /\ before.call.op = "insert_text"
    /\ DOMAIN before.call.arg[3] = {}
    /\ lastOp.arg = <<before.call.arg[1], before.call.arg[1] + Len(before.call.arg[2])>>

\* C22: on a FormattedDocument, insert_text(p, s) followed by
\* delete_text(p, p + len(s)) leaves the text and the runs of every style
\* attribute as they were before the two calls: for the two calls when the
\* application has just made them, and for every p and s it could pass
\* next.
C22_InsertDeleteRoundTrip ==
    [][/\ RoundTripDone' =>
             /\ document'.text = before.now.document.text
             /\ document'.style_runs = before.now.document.style_runs
       /\ document.class = "FormattedDocument" =>
             \A p \in Positions, text \in Texts :
                 \E after \in {RoundTrip(Now, p, text).document} :
                     /\ after.text = document.text
                     /\ after.style_runs = document.style_runs]_vars

\* C22 witness: the two calls were made on a document with a styled
\* character, the insertion next to it.
C22_Witness ==
    /\ RoundTripDone
    /\ "bold" \in DOMAIN document.style_runs
    /\ Len(document.style_runs["bold"]) = 1
    /\ document.style_runs["bold"][1].value = 1
    /\ Len(document.text) = 1
    /\ lastOp.arg[1] = 1

\* The values attribute a takes at the positions of [start, end).
ValuesIn(a, start, end) == {get_style(document, a, i) : i \in start .. end - 1}

\* C23: get_style_range(attribute, start, end) with 0 <= start < end <=
\* len(text) returns the value the attribute has at every position of the
\* range when it is the same everywhere (None when it was never set) and
\* STYLE_INDETERMINATE when the attribute takes two or more values there.
C23_StyleRange ==
    lastOp.op = "get_style_range" =>
        lastOp.arg.returned =
            IF Cardinality(ValuesIn(lastOp.arg.attribute, lastOp.arg.start, lastOp.arg.end)) = 1
            THEN get_style(document, lastOp.arg.attribute, lastOp.arg.start)
            ELSE STYLE_INDETERMINATE

\* C23 witness: bold was set on the first character only, and the range of
\* the first two characters is read as indeterminate.
C23_Witness ==
    /\ lastOp.op = "get_style_range"
    /\ document.class = "FormattedDocument"
    /\ lastOp.arg = [attribute |-> "bold", start |-> 0, end |-> 2,
                     returned |-> STYLE_INDETERMINATE]
    /\ get_style_range(document, "bold", 0, 1) = 1
    /\ get_style(document, "bold", 1) = None

\* The length a run list covers.
RunsLength(runs) == RunStart(runs, Len(runs) + 1)

\* C24: on a FormattedDocument the run list of every attribute that has
\* been set covers [0, len(text)): its runs, which follow each other, have
\* the length of the text together, none is empty unless the text is, and
\* no two adjacent runs have the same value.
C24_RunsCoverText ==
    document.class = "FormattedDocument" =>
        \A a \in DOMAIN document.style_runs :
            \E runs \in {document.style_runs[a]} :
                /\ RunsLength(runs) = Len(document.text)
                /\ \A k \in DOMAIN runs :
                      runs[k].count > 0 \/ (Len(runs) = 1 /\ document.text = <<>>)
                /\ \A k \in 1 .. Len(runs) - 1 : runs[k].value # runs[k + 1].value

\* C24 witness: a delete_text has left an attribute with two runs or more
\* over the text that remains.
C24_Witness ==
    /\ document.class = "FormattedDocument"
    /\ lastOp.op = "delete_text"
    /\ lastOp.arg[1] < lastOp.arg[2]
    /\ "bold" \in DOMAIN document.style_runs
    /\ Len(document.style_runs["bold"]) >= 2
    /\ RunsLength(document.style_runs["bold"]) = Len(document.text)

\* C25: set_paragraph_style(start, end, attrs) on a FormattedDocument
\* reports in on_style_text, and styles, a range [s, e) with s <= start and
\* e >= end, where s is 0 or follows a separator and no separator is in
\* text[s:start], and e is len(text) or follows the first separator at or
\* after end; '\n' and U+2029 are separators.
C25_ParagraphRange ==
    (lastOp.op = "set_paragraph_style" /\ document.class = "FormattedDocument") =>
        \E start \in {lastOp.arg[1]}, end \in {lastOp.arg[2]},
           s \in {dispatched[1].args[1]}, e \in {dispatched[1].args[2]} :
            /\ s <= start
            /\ e >= end
            /\ s = 0 \/ IsSeparator(document.text[s])
            /\ \A i \in s .. start - 1 : ~IsSeparator(document.text[i + 1])
            /\ \/ e = Len(document.text) /\ \A i \in end .. e - 1 : ~IsSeparator(document.text[i + 1])
               \/ /\ e > end
                  /\ IsSeparator(document.text[e])
                  /\ \A i \in end .. e - 2 : ~IsSeparator(document.text[i + 1])
            /\ \A a \in DOMAIN lastOp.arg[3] :
               \A i \in s .. e - 1 : get_style(document, a, i) = lastOp.arg[3][a]

\* Position p is outside a text of length n.
Outside(p, n) == p < 0 \/ p > n

\* The last call was given a position outside the text it found.
CalledOutside ==
    \/ /\ lastOp'.op \in {"insert_text", "insert_element"}
       /\ Outside(lastOp'.arg[1], Len(document.text))
    \/ /\ lastOp'.op \in {"delete_text", "set_style"}
       /\ \/ Outside(lastOp'.arg[1], Len(document.text))
          \/ Outside(lastOp'.arg[2], Len(document.text))

\* C26: insert_text, delete_text, insert_element and set_style with a
\* position that is negative or greater than len(text) raise an error,
\* leave the text, the elements and the styles as they were and dispatch
\* nothing.
C26_OutsideFails ==
    [][CalledOutside =>
          /\ lastOp'.raised # "none"
          /\ document' = document
          /\ _position' = _position
          /\ dispatched' = <<>>]_vars

\* C27: insert_element with an element whose position is not None raises
\* before anything is changed: the text, the element list, the positions
\* of all elements and the styles are as before, and nothing is dispatched.
C27_PlacedElementRejected ==
    [][(lastOp'.op = "insert_element" /\ _position[lastOp'.arg[2]] # None) =>
          /\ lastOp'.raised = "AssertionError"
          /\ document' = document
          /\ _position' = _position
          /\ dispatched' = <<>>]_vars

\* C27 witness: an element that is in the document was inserted again and
\* the call raised.
C27_Witness ==
    /\ lastOp.op = "insert_element"
    /\ lastOp.raised = "AssertionError"
    /\ \E i \in DOMAIN document.elements : document.elements[i] = lastOp.arg[2]
    /\ dispatched = <<>>

\* The ranges 0 <= start < end <= len(text) of the document.
Ranges == {r \in Positions \X Positions : r[1] < r[2]}

\* C28: after set_style or set_paragraph_style on an UnformattedDocument,
\* with any range, the one notification reports (0, len(text)), get_style
\* returns the new value of each attribute at every position, and
\* get_style_range returns it for every range and the indeterminate marker
\* for no attribute and no range.
C28_UnformattedStylesWholeDocument ==
    (document.class = "UnformattedDocument"
        /\ lastOp.op \in {"set_style", "set_paragraph_style"}) =>
        /\ Len(dispatched) = 1
        /\ dispatched[1].args = <<0, Len(document.text), lastOp.arg[3]>>
        /\ \A a \in DOMAIN lastOp.arg[3] :
              /\ \A p \in 0 .. Len(document.text) - 1 :
                    get_style(document, a, p) = lastOp.arg[3][a]
              /\ \A r \in Ranges :
                    get_style_range(document, a, r[1], r[2]) = lastOp.arg[3][a]
        /\ \A a \in Attributes, r \in Ranges :
              get_style_range(document, a, r[1], r[2]) # STYLE_INDETERMINATE

\* C28 witness: set_paragraph_style was called for the second of two
\* paragraphs of an UnformattedDocument.
C28_Witness ==
    /\ document.class = "UnformattedDocument"
    /\ lastOp.op = "set_paragraph_style"
    /\ Len(document.text) = 3
    /\ IsSeparator(document.text[2])
    /\ lastOp.arg[1] = 2
    /\ lastOp.arg[2] = 3
    /\ dispatched[1].args[1] = 0
    /\ get_style(document, "indent", 0) = lastOp.arg[3]["indent"]

\* The buffers among bufs that hold the attribute of the usage.
BuffersOf(bufs, usage) ==
    {b \in DOMAIN bufs :
        \E j \in DOMAIN bufs[b].attributes : bufs[b].attributes[j] = usage.attribute}

\* The formats of domain d that have static usage.
StaticFormats(d) == {i \in DOMAIN attribute_usages(d) : IsStatic(attribute_usages(d)[i])}

\* The layout of the buffers bufs of a domain with these usages.
BufferLayout(usages, bufs) ==
    LET static == {i \in DOMAIN usages : IsStatic(usages[i])}
        holder == [i \in DOMAIN usages |-> BuffersOf(bufs, usages[i])]
    IN  /\ \A i \in DOMAIN usages : Cardinality(holder[i]) = 1
        /\ \A i, j \in static : holder[i] = holder[j]
        /\ \A i \in DOMAIN usages \ static :
              \A b \in holder[i] : Len(bufs[b].attributes) = 1
        /\ Len(bufs) = Cardinality(DOMAIN usages \ static)
                       + (IF static = {} THEN 0 ELSE 1)

\* C29: in every domain each attribute is in exactly one buffer; the
\* attributes with static usage are all in one buffer, every other
\* attribute (dynamic, stream or without a usage) is alone in its buffer;
\* and the domain has one buffer per non-static attribute plus one when it
\* has a static attribute.
C29_BufferLayout ==
    \A d \in DOMAIN domain_formats :
        LET bufs == buffer_attributes(d)
        IN  /\ BufferLayout(attribute_usages(d), bufs)
            /\ Len(bufsize[d]) = Len(bufs)

\* C29 witness: a domain created from two static formats around one without
\* a usage has two buffers, and a list was created in it.
C29_Witness ==
    /\ Len(domain_formats[1]) = 3
    /\ StaticFormats(1) = {1, 3}
    /\ domain_formats[1][2].usage = ""
    /\ Len(buffer_attributes(1)) = 2
    /\ Len(bufsize[1]) = 2
    /\ \E l \in Lists : vlist[l] # NoList /\ vlist[l].domain = 1

\* The call that ends the step is migrate of list l to domain d2.
MigrateCalled(l, d2) ==
    /\ nops' # nops
    /\ lastOp'.op = "migrate" /\ lastOp'.list = l /\ lastOp'.arg = d2

\* C30: a migrate of a list to a domain whose attribute names are not those
\* of the list's domain raises AssertionError and changes nothing: the
\* allocated regions and the capacity of every domain, the buffers, and the
\* list's domain, start and count are what they were.
C30_MismatchedMigrateFails ==
    [][\A l \in Lists, d2 \in DOMAIN domain_formats :
          (/\ MigrateCalled(l, d2)
           /\ attribute_names(d2) # attribute_names(vlist[l].domain))
          => /\ lastOp'.raised = "AssertionError"
             /\ regions' = regions
             /\ capacity' = capacity
             /\ data' = data
             /\ vlist' = vlist]_vars

\* C30 witness: a migrate to a domain with other attribute names, which had
\* room for the list, has raised AssertionError; the list is where it was
\* and the target domain has no region.
C30_Witness ==
    \E l \in Lists :
        /\ lastOp.op = "migrate" /\ lastOp.list = l
        /\ lastOp.raised = "AssertionError"
        /\ vlist[l] # NoList
        /\ lastOp.arg # vlist[l].domain
        /\ attribute_names(lastOp.arg) # attribute_names(vlist[l].domain)
        /\ regions[lastOp.arg] = {}
        /\ vlist[l].count > 0
        /\ vlist[l].count <= capacity[lastOp.arg]
        /\ <<vlist[l].start, vlist[l].count>> \in regions[vlist[l].domain]

\* The triples lie one after the other from start to end: each begins where
\* the one before it ends, the first at start, and the last ends at end.
CoversExactly(triples, start, end) ==
    /\ \A k \in DOMAIN triples : triples[k][1] <= triples[k][2]
    /\ \A k \in DOMAIN triples :
          triples[k][1] = (IF k = 1 THEN start ELSE triples[k - 1][2])
    /\ IF triples = <<>> THEN start = end ELSE triples[Len(triples)][2] = end

\* C31: for every range 0 <= start <= end <= len(text) the triples of
\* get_style_runs(attribute).ranges(start, end), for every attribute, and
\* of get_element_runs().ranges(start, end) cover [start, end) exactly,
\* without a gap and without an overlap.
C31_RangesCoverQuery ==
    \A start \in Positions, end \in Positions :
        start <= end =>
            /\ \A attribute \in Attributes :
                  CoversExactly(StyleRanges(document, attribute, start, end), start, end)
            /\ CoversExactly(ElementRanges(document, _position, start, end), start, end)

\* C31 witness: a FormattedDocument with elements at 0 and at 1 and a
\* character behind them, bold set on a part of the text and indent never:
\* the element ranges of the whole text are the two elements and the rest,
\* the bold ranges are two and the indent range is one.
C31_Witness ==
    /\ document.class = "FormattedDocument"
    /\ Len(document.text) = 3
    /\ \E e1, e2 \in Elements :
          /\ document.elements = <<e1, e2>>
          /\ _position[e1] = 0 /\ _position[e2] = 1
    /\ Len(ElementRanges(document, _position, 0, 3)) = 3
    /\ ElementRanges(document, _position, 0, 3)[2][1] = 1
    /\ ElementRanges(document, _position, 0, 3)[3][1] = 2
    /\ "bold" \in DOMAIN document.style_runs
    /\ Len(StyleRanges(document, "bold", 0, 3)) = 2
    /\ "indent" \notin DOMAIN document.style_runs
    /\ StyleRanges(document, "indent", 1, 2) = << <<1, 2, None>> >>

\* C32: the draw of one indexed list submits one glDrawElements call over
\* the list's index region: the offset is index_start and the count is
\* index_count.
C32_DrawsIndexRegion ==
    \A l \in Lists :
        (lastOp.op = "indexed_domain_draw" /\ lastOp.list = l)
        => lastOp.arg.calls =
               <<GLCall("glDrawElements", <<<<vlist[l].index_start, vlist[l].index_count>>>>)>>

\* The step is a resize of the indexed list l that moved its index region.
IndexRegionMoved(l) ==
    /\ nops' # nops
    /\ lastOp'.op = "resize" /\ lastOp'.list = l /\ lastOp'.raised = "none"
    /\ domain_indexed[vlist[l].domain]
    /\ vlist'[l].index_start # vlist[l].index_start

\* C33: when a resize moves the index region of a list, the indices that
\* were in the old region are at the new index_start after the call, the
\* first min(old index_count, new index_count) of them (each changed by
\* as much as the call moved the list's vertices).
C33_MovedIndicesCopied ==
    [][\A l \in Lists :
          IndexRegionMoved(l) =>
              \A k \in 0 .. Min({vlist[l].index_count, vlist'[l].index_count}) - 1 :
                  index_data'[vlist[l].domain][vlist'[l].index_start + k]
                  = index_data[vlist[l].domain][vlist[l].index_start + k]
                    + (vlist'[l].start - vlist[l].start)]_vars

\* The step is a create that returned list l.
Created(l) ==
    /\ nops' # nops
    /\ lastOp'.op = "create" /\ lastOp'.list = l /\ lastOp'.raised = "none"

\* What every attribute's buffer of domain d holds, in `contents`, for the
\* vertices of the list v.
StoredData(contents, v) ==
    [n \in DOMAIN contents[v.domain] |->
        [k \in 0 .. v.count - 1 |-> contents[v.domain][n][v.start + k]]]

\* C34: a create, with or without growth of the buffers and the allocator,
\* leaves the start, the count and the stored attribute data of every
\* other live list as they were, and the allocated regions of the domain
\* after it are those before it and the one new region.
C34_CreateLeavesOthers ==
    [][\A l \in Lists :
          Created(l) =>
              /\ \A o \in Lists \ {l} :
                    IsLive(o) =>
                        /\ vlist'[o] = vlist[o]
                        /\ StoredData(data', vlist[o]) = StoredData(data, vlist[o])
              /\ <<vlist'[l].start, vlist'[l].count>> \notin regions[vlist'[l].domain]
              /\ regions' = [regions EXCEPT ![vlist'[l].domain] =
                                @ \cup {<<vlist'[l].start, vlist'[l].count>>}]]_vars

\* C34 witness: a create has grown the buffers of a domain in which
\* another live list has its data written.
C34_Witness ==
    \E l \in Lists, o \in Lists :
        /\ l # o
        /\ lastOp.op = "create" /\ lastOp.list = l /\ lastOp.raised = "none"
        /\ lastOp.grew
        /\ IsLive(l) /\ IsLive(o)
        /\ vlist[o].domain = vlist[l].domain
        /\ capacity[vlist[l].domain] > 16
        /\ \A n \in DOMAIN data[vlist[o].domain] :
              \A k \in 0 .. vlist[o].count - 1 :
                  StoredData(data, vlist[o])[n][k] = Val(o, n, k)

\* The powers of two among the ints.
PowersOfTwo == {Pow2(k) : k \in 0 .. 30}

\* The int n is a power of two.
IsPowerOfTwo(n) == n \in PowersOfTwo

\* a < b, on digits: by the digits from 2^17, then by those below.
LessBits(a, b) ==
    \/ PartValue(a, 17, 33) < PartValue(b, 17, 33)
    \/ /\ PartValue(a, 17, 33) = PartValue(b, 17, 33)
       /\ PartValue(a, 0, 16) < PartValue(b, 0, 16)

\* r is the smallest power of two that is not less than v, on digits.
SmallestPowerOfTwoFrom(v, r) ==
    /\ \E k \in BitPositions : r[k] = 1
    /\ LET k == CHOOSE i \in BitPositions : r[i] = 1
       IN /\ r = PowBits(k)
          /\ ~LessBits(r, v)
          /\ k > 0 => LessBits(PowBits(k - 1), v)

\* C35: the capacity of every domain starts at 16, never decreases and is
\* a power of two; a create that grows the domain leaves the smallest
\* power of two that holds the regions; and _nearest_pow2(v) is the
\* smallest power of two not less than v for the values from 1 to 2^32,
\* v itself when v is a power of two.
C35_CapacityPowerOfTwo ==
    /\ \A d \in DOMAIN capacity : capacity[d] = 16
    /\ [][/\ \A d \in DOMAIN capacity :
                /\ capacity'[d] >= capacity[d]
                /\ IsPowerOfTwo(capacity'[d])
                /\ (lastOp'.op = "create" /\ capacity'[d] # capacity[d])
                   => /\ capacity'[d] = _nearest_pow2(LastEnd(regions'[d]))
                      /\ capacity'[d] >= LastEnd(regions'[d])
                      /\ capacity'[d] \div 2 < LastEnd(regions'[d])
          /\ lastOp'.op = "_nearest_pow2"
             => /\ SmallestPowerOfTwoFrom(lastOp'.arg.v, lastOp'.arg.returned)
                /\ (\E k \in BitPositions : lastOp'.arg.v = PowBits(k))
                   => lastOp'.arg.returned = lastOp'.arg.v
                /\ ~LessBits(FromInt(33), lastOp'.arg.v)
                   => ToInt(lastOp'.arg.returned) = _nearest_pow2(ToInt(lastOp'.arg.v))]_vars

\* C35 witness: a domain has grown from 16 to 32, and _nearest_pow2 was
\* called with 2^32 and returned it.
C35_Witness ==
    /\ \E d \in DOMAIN capacity : capacity[d] = 32 /\ version[d] > 0
    /\ lastOp.op = "_nearest_pow2"
    /\ lastOp.arg.v = PowBits(32)
    /\ lastOp.arg.returned = PowBits(32)

\* The step is a delete of list l.
Deleted(l) ==
    /\ nops' # nops
    /\ lastOp'.op = "delete" /\ lastOp'.list = l

\* C36: a delete removes the list's region of vertices, and no other, from
\* the allocated regions of its domain, and the delete of an indexed list
\* removes its region of indices, and no other, from the index allocator's
\* as well; the other lists, the data, the versions and the capacities of
\* the buffers and the allocators are as they were.
C36_DeleteRemovesOwnRegions ==
    [][\A l \in Lists :
          Deleted(l) =>
              /\ <<vlist[l].start, vlist[l].count>> \in regions[vlist[l].domain]
              /\ regions' = [regions EXCEPT ![vlist[l].domain] =
                                @ \ {<<vlist[l].start, vlist[l].count>>}]
              /\ IF domain_indexed[vlist[l].domain]
                 THEN /\ <<vlist[l].index_start, vlist[l].index_count>>
                            \in index_regions[vlist[l].domain]
                      /\ index_regions' = [index_regions EXCEPT ![vlist[l].domain] =
                             @ \ {<<vlist[l].index_start, vlist[l].index_count>>}]
                 ELSE index_regions' = index_regions
              /\ \A o \in Lists \ {l} : vlist'[o] = vlist[o]
              /\ data' = data /\ index_data' = index_data
              /\ version' = version
              /\ capacity' = capacity /\ bufsize' = bufsize
              /\ index_capacity' = index_capacity /\ index_bufsize' = index_bufsize]_vars

\* C36 witness: of two indexed lists the first was deleted; the regions of
\* the second, which begin behind those of the first, are the only ones
\* left in the indexed domain.
C36_Witness ==
    \E o \in Lists :
        /\ nops = 3
        /\ lastOp.op = "delete" /\ lastOp.list # o
        /\ IsLive(o) /\ vlist[o].domain = IndexedDomain
        /\ vlist[o].start > 0 /\ vlist[o].index_start > 0
        /\ regions[IndexedDomain] = {<<vlist[o].start, vlist[o].count>>}
        /\ index_regions[IndexedDomain] = {<<vlist[o].index_start, vlist[o].index_count>>}

\* The domains registered in batch b.
RegisteredDomains(gm) ==
    UNION {{gm[g][k] : k \in DOMAIN gm[g]} : g \in DOMAIN gm}

\* C37: writing the data of a list, resize and delete, with or without
\* growth of the domain, leave the dirty flag, the draw list, group_map,
\* group_children and top_groups of every batch as they were; no step
\* takes a group or a domain out of a batch; and in a Clean batch every
\* registered domain has its draw in the draw list, which for a domain
\* without lists makes no drawing call.
C37_DataLeavesBatch ==
    [][/\ lastOp'.op \in {"set_attribute_data", "resize", "delete"}
          => UNCHANGED <<group_map, group_children, top_groups, draw_list, draw_list_dirty>>
       /\ \A b \in Batches :
             /\ \A g \in DOMAIN group_map[b] :
                   /\ g \in DOMAIN group_map'[b]
                   /\ \A k \in DOMAIN group_map[b][g] :
                         /\ k \in DOMAIN group_map'[b][g]
                         /\ group_map'[b][g][k] = group_map[b][g][k]
             /\ ~draw_list_dirty'[b]
                => \A d \in RegisteredDomains(group_map'[b]) :
                      /\ \E i \in DOMAIN draw_list'[b] :
                            /\ draw_list'[b][i].op = "draw"
                            /\ draw_list'[b][i].domain = d
                      /\ regions'[d] = {}
                         => \A have_multi \in BOOLEAN :
                               VertexDomain_draw(regions'[d], NoList, have_multi) = <<>>]_vars

\* C37 witness: the only list of a domain was deleted after the batch was
\* drawn; the batch is still Clean and the domain, without a region, has
\* its draw in the draw list.
C37_Witness ==
    \E b \in Batches :
        /\ lastOp.op = "delete"
        /\ ~draw_list_dirty[b]
        /\ \E d \in RegisteredDomains(group_map[b]) :
              /\ regions[d] = {}
              /\ \E i \in DOMAIN draw_list[b] :
                    draw_list[b][i].op = "draw" /\ draw_list[b][i].domain = d

\* How often the group g is in the list s.
Occurrences(s, g) == Cardinality({i \in DOMAIN s : s[i] = g})

\* C38: in every batch every registered group with a parent has its parent
\* registered, is once in the parent's group_children and is not in
\* top_groups; every registered group without a parent is once in
\* top_groups; and the lists hold registered groups only, each under its
\* own parent, so that every registered group is reached from top_groups
\* once.
C38_GroupTree ==
    \A b \in Batches :
        /\ \A g \in DOMAIN group_map[b] :
              IF GroupParent(g) # None
              THEN /\ HasKey(DOMAIN group_map[b], GroupParent(g))
                   /\ HasKey(DOMAIN group_children[b], GroupParent(g))
                   /\ Occurrences(group_children[b][Key(DOMAIN group_children[b],
                                                        GroupParent(g))], g) = 1
                   /\ Occurrences(top_groups[b], g) = 0
              ELSE /\ Occurrences(top_groups[b], g) = 1
                   /\ \A p \in DOMAIN group_children[b] :
                         Occurrences(group_children[b][p], g) = 0
        /\ \A i \in DOMAIN top_groups[b] : top_groups[b][i] \in DOMAIN group_map[b]
        /\ \A p \in DOMAIN group_children[b] :
              \A i \in DOMAIN group_children[b][p] :
                  /\ group_children[b][p][i] \in DOMAIN group_map[b]
                  /\ p = Key(DOMAIN group_children[b], GroupParent(group_children[b][p][i]))

\* C38 witness: a batch to which a nested group was added before its
\* parent and a nested TextureGroup after it: the parent is in top_groups
\* and both are its children.
C38_Witness ==
    \E b \in Batches :
        /\ {1, 3, 7} \subseteq DOMAIN group_map[b]
        /\ top_groups[b] = <<1>>
        /\ 1 \in DOMAIN group_children[b]
        /\ group_children[b][1] = <<3, 7>>
        /\ lastOp.op \in {"add", "add_indexed", "batch_migrate"}

\* C39: two TextureGroups, and two OrderedGroups, among the groups of a
\* batch are equal exactly when their textures, or their orders, are equal
\* and their parents are equal, and two groups that are equal have the
\* same hash.
C39_GroupIdentity ==
    \A b \in Batches :
        \A g, h \in DOMAIN group_map[b] :
            (GroupClass(g) = GroupClass(h) /\ GroupClass(g) # "NullGroup") =>
                /\ GroupEq(g, h) <=> (/\ GroupTexture(g) = GroupTexture(h)
                                      /\ GroupOrder(g) = GroupOrder(h)
                                      /\ GroupEq(GroupParent(g), GroupParent(h)))
                /\ GroupEq(g, h) => GroupHash(g) = GroupHash(h)

\* C40: in every constructed domain no two attributes have the same name,
\* and attribute_names has as many entries as the domain has attributes
\* (create_domain with two attributes of one name raises AssertionError).
C40_OneAttributePerName ==
    \A d \in DOMAIN domain_formats :
        /\ \A i, j \in DOMAIN attributes(d) :
              i # j => attributes(d)[i].plural # attributes(d)[j].plural
        /\ Cardinality(attribute_names(d)) = Len(attributes(d))

\* C10 witness: a batch that was drawn is still Clean after an add, which
\* found its domain.
C10_Witness ==
    /\ lastOp.op \in {"add", "add_indexed"}
    /\ lastOp.raised = "none"
    /\ ~draw_list_dirty[lastOp.arg.batch]
    /\ draw_list[lastOp.arg.batch] # <<>>

====
